---- MODULE Spec2Model ----
(***************************************************************************)
(* Lap recording core of the telemetry services                            *)
(* (server/telemetry_service.py, server/lmu_service.py).                   *)
(*                                                                         *)
(* Units.  Lap times are integers in 1/10000 s, so that round(x, 3) is a   *)
(* real operation (95.4321 s is 954321 and rounds to 954320).  Wall clock  *)
(* time (time.time()) is an integer number of milliseconds.  distancePct   *)
(* is an integer in 1/10000 (the code rounds it to 4 decimals).            *)
(***************************************************************************)
EXTENDS Integers, Sequences, FiniteSets, TLC

\* ------------------------------------------------------------------ bounds
\* max_laps constructor argument of LapStorageService (default MAX_STORED_LAPS)
max_laps == 2
\* point threshold of a valid lap (MIN_LAP_POINTS and the literal 100 of
\* complete_lap and save_pending_lap), scaled down from the source's 100
MIN_LAP_POINTS == 2
\* how far past the threshold the live buffer is explored
ExtraPoints == 1
\* how many laps past max_laps are stored in one run
ExtraLaps == 1
\* last wall clock reading explored, in ms: by the service, by direct calls
MaxClock == 41000
MaxStoreClock == 11000
\* highest simulator lap counter explored
MaxLapNumber == 3
\* highest lap_number handed to start_lap directly
MaxStartLap == 1
\* the resolver runs: last wall clock reading (ms), laps stored in one run
MaxResolverClock == 31000
MaxResolverLaps == 1
\* the 1 Hz loop runs: last wall clock reading (ms)
MaxTelemetryClock == 6000
\* the recorder runs whole laps while a pending lap is held: last wall clock
\* reading (ms)
MaxPendingClock == 19000
\* the spotter runs: the wall clock goes up to 9.4 s
MaxSpotterClock == 9400
\* websocket connections that are ever made
MaxClients == 3
\* most events detect_events returns to one iteration of telemetry_loop
MaxLoopEvents == 2

\* longest live buffer, number of lap ids (uuid4 values) drawn
MaxPoints == MIN_LAP_POINTS + ExtraPoints
MaxUuid == max_laps + ExtraLaps

\* --------------------------------------------------------- program constants
\* float('inf')
Inf == 1000000000
\* 10.0 s and 1200.0 s in 1/10000 s
MinLapTime == 100000
MaxLapTime == 12000000
\* 0.05 in 1/10000
WrapTolerance == 500
\* LAP_CAPTURE_INTERVAL = 0.05 s, in ms
LAP_CAPTURE_INTERVAL == 50
\* LAP_POINTS_BUFFER_SIZE = 3000 points, scaled with MIN_LAP_POINTS (100): one
\* point more than a lap needs to become a pending lap
LAP_POINTS_BUFFER_SIZE == MIN_LAP_POINTS + 1
\* RECONNECT_DELAY = 5.0 s, in ms
RECONNECT_DELAY == 5000
\* pending lap timeout 10.0 s, in ms
PendingTimeout == 10000
\* spotter_cooldown 1.0 s and spotter_still_interval 2.0 s, in ms
spotter_cooldown == 1000
spotter_still_interval == 2000
\* detect_events drops a spotter call made less than 0.5 s after the last one
\* it emitted (ms)
SpotterEmitGap == 500
\* sector limits 0.33 and 0.66 in 1/10000, sanity limit 300 s in 1/10000 s
SectorOneEnd == 3300
SectorTwoEnd == 6600
MaxSectorTime == 3000000
\* OpponentSectorTracker.max_cars
max_cars == 64
\* None for a sector time
NoTime == -1

\* ------------------------------------------------------------- input domains
NoneId == 0
\* lap_time arguments: 9.9999, 10.0, 94.010, 95.4321, 1200.0001
LapTimes == {99999, 100000, 940100, 954321, 12000001}
\* distancePct of a point: 0.04, 0.05, 0.99
DistancePcts == {400, 500, 9900}
\* distancePct values handed to add_point when only the count matters
StoreDistancePcts == {400}
TrackNames == {"Spa"}
CarNames == {"GT3"}
ClockSteps == {5000}
\* time between two capture ticks while a pending lap is held (ms): with the
\* point threshold scaled down to MIN_LAP_POINTS, a lap of MIN_LAP_POINTS + 1
\* ticks fits into the 10 s a pending lap is kept, as 101 ticks of 0.05 s do
PendingClockSteps == {2000, 5000}
\* one simulator frame as capture_lap_telemetry reads it: LapDistPct in
\* 1/100000 (0.04996), LapLastLapTime (0 = not available yet; 9.9999, 94.010,
\* 95.4321), read while the simulator is up
FrameDistPcts == {4996}
FrameLapTimes == {0, 99999, 940100, 954321}
FrameTrackNames == {"Spa"}
Frames ==
  [is_connected : {TRUE}, Lap : 0..MaxLapNumber, LapDistPct : FrameDistPcts,
   LapLastLapTime : FrameLapTimes, TrackDisplayName : FrameTrackNames,
   CarScreenName : CarNames, on_track : BOOLEAN]
\* frames for the pending-lap resolver, car on track: LapLastLapTime 0, 9.9999
\* or 94.010, two tracks, and a position that tells the laps apart (sampled at
\* 0.25004 in odd laps, at 0.04996 in even laps)
ResolverLapTimes == {0, 99999, 940100}
ResolverTrackNames == {"Spa", "Monza"}
ResolverDistPct(lap) == IF lap % 2 = 1 THEN 25004 ELSE 4996
ResolverFrames ==
  {[is_connected |-> TRUE, Lap |-> l, LapDistPct |-> ResolverDistPct(l),
    LapLastLapTime |-> lt, TrackDisplayName |-> tr, CarScreenName |-> c,
    on_track |-> TRUE] :
     l \in 0..MaxLapNumber, lt \in ResolverLapTimes, tr \in ResolverTrackNames,
     c \in CarNames}

\* one simulator frame as the 1 Hz loop reads it: the player's lap, flags,
\* position, pit road, incidents, session state and number, the native
\* CarLeftRight value (1 clear, 2 car left), one opponent at
\* 0.5 of the lap on track (list index 1 is the first car of the arrays), and
\* the session-info read that raises in this frame ("none", "WeekendInfo",
\* "DriverInfo")
TelemetryFrames ==
  [Lap : {2}, SessionFlags : {4}, Position : {3}, OnPitRoad : {FALSE},
   InGarage : {FALSE}, Incidents : {1}, SessionState : {4}, SessionNum : {0},
   SessionType : {"Race"}, num_cars : {2}, CarLeftRight : {1, 2},
   CarIdxLapDistPct : {<<5000>>}, CarIdxTrackSurface : {<<3>>},
   raises : {"none"}]

\* what OpponentSectorTracker.update is handed for one car: SessionTime
\* (1/10000 s: 0, 0.0004, 1.0, 299.9996 and 300.0 s), CarIdxLapDistPct (-0.1,
\* 0.1, 0.5 and 0.9 of the lap) and CarIdxTrackSurface (-1 not in world,
\* 3 on track)
SectorSessionTimes == {0, 4, 10000, 2999996, 3000000}
SectorDistPcts == {-1000, 1000, 5000, 9000}
SectorTrackSurfaces == {-1, 3}

\* time.time() between two evaluations of the spotter: 0.4 s, 2.0 s
SpotterSteps == {400, 2000}
\* frames for the spotter: CarLeftRight 1 clear, 2 car left, 3 car right,
\* 4 cars on both sides; on the track or on pit road
SpotterFrames ==
  [Lap : {2}, SessionFlags : {4}, Position : {3}, OnPitRoad : BOOLEAN,
   InGarage : {FALSE}, Incidents : {1}, SessionState : {4}, SessionNum : {0},
   SessionType : {"Race"}, num_cars : {2}, CarLeftRight : {1, 2, 3, 4},
   CarIdxLapDistPct : {<<5000>>}, CarIdxTrackSurface : {<<3>>},
   raises : {"none"}]

\* frames for the event detector: the lap counter 0 to 2, two session
\* numbers, a session that is active (4 racing) or not (1 get in car), a car
\* on the left or none, and a read of WeekendInfo or DriverInfo that raises
EventFrames ==
  [Lap : 0..2, SessionFlags : {4}, Position : {3}, OnPitRoad : {FALSE},
   InGarage : {FALSE}, Incidents : {1}, SessionState : {1, 4},
   SessionNum : {0, 1}, SessionType : {"Race"}, num_cars : {2},
   CarLeftRight : {1, 2}, CarIdxLapDistPct : {<<5000>>},
   CarIdxTrackSurface : {<<3>>}, raises : {"none", "WeekendInfo", "DriverInfo"}]

VARIABLES
  lap_storage,            \* the LapStorageService object
  connected,              \* service.connected
  prev_lap_for_capture,   \* service.prev_lap_for_capture
  last_lap_capture_time,  \* service.last_lap_capture_time (ms)
  now,                    \* time.time() (ms)
  uuid_next,              \* next value uuid.uuid4() yields
  call,                   \* the last call made and what it returned
  tick,                   \* what the last capture tick of the resolver read
  spotter,                \* service.spotter_state, _frames_in_state, _last_call,
                          \* _last_spotter_emit
  sector_tracker,         \* service.sector_tracker (OpponentSectorTracker)
  tracking,               \* service.prev_* and the session tracking fields
  running,                \* telemetry_loop is still running (no exception left it)
  emitted,                \* what the last iteration of telemetry_loop read and
                          \* what detect_events returned to it
  clients,                \* server.clients
  broadcast,              \* the activation of server.broadcast in progress
  sockets,                \* the websocket connections: "new", "open",
                          \* "stalled" (the peer has stopped reading: a send
                          \* does not complete), "closed" (the peer is gone,
                          \* handler has not returned yet), "gone"
  loops                   \* the coroutines of telemetry_loop and
                          \* lap_capture_loop on the event loop

vars == <<lap_storage, connected, prev_lap_for_capture, last_lap_capture_time,
          now, uuid_next, call, tick, spotter, sector_tracker, tracking,
          running, emitted, clients, broadcast, sockets, loops>>

\* ------------------------------------------------------------ data structures
TelemetryPoint(d) == [distancePct |-> d]

NoLap == [id |-> NoneId, lapNumber |-> 0, lapTime |-> 0, isSessionBest |-> FALSE,
          trackName |-> "", carName |-> "", completedAt |-> 0, points |-> <<>>,
          deltaToSessionBest |-> 0]

LapData(id, lapNumber, lapTime, isSessionBest, trackName, carName, completedAt, points, delta) ==
  [id |-> id, lapNumber |-> lapNumber, lapTime |-> lapTime,
   isSessionBest |-> isSessionBest, trackName |-> trackName, carName |-> carName,
   completedAt |-> completedAt, points |-> points, deltaToSessionBest |-> delta]

\* round(x, 3) on a value in 1/10000: nearest multiple of 10, ties to even
Round3(x) ==
  LET a == IF x < 0 THEN -x ELSE x
      q == a \div 10
      r == a % 10
      m == IF r > 5 \/ (r = 5 /\ q % 2 = 1) THEN q + 1 ELSE q
  IN  IF x < 0 THEN -(m * 10) ELSE m * 10

\* LapStorageService(max_laps)
LapStorageService_new(limit) ==
  [max_laps |-> limit,
   laps |-> <<>>, session_best_id |-> NoneId, session_best_time |-> Inf,
   current_lap_points |-> <<>>, current_lap_number |-> 0,
   recording_active |-> FALSE, last_distance_pct |-> 0,
   pending_lap_points |-> <<>>, pending_lap_number |-> 0,
   pending_lap_track |-> "", pending_lap_car |-> "",
   pending_lap_created_at |-> 0]

LapStorageService_init == LapStorageService_new(max_laps)

\* ------------------------------------------------------- LapStorageService
start_lap(self, lap_number) ==
  [self EXCEPT !.current_lap_points = <<>>,
               !.current_lap_number = lap_number,
               !.recording_active = TRUE,
               !.last_distance_pct = 0]

\* mutant: no exception for a point just after the start line
AcceptsPoint_NoWrap(d, last) == d >= last

AcceptsPoint(d, last) == d >= last \/ d < WrapTolerance

add_point(self, point) ==
  IF ~self.recording_active THEN self
  ELSE IF AcceptsPoint(point.distancePct, self.last_distance_pct)
       THEN [self EXCEPT !.current_lap_points = Append(@, point),
                         !.last_distance_pct = point.distancePct]
       ELSE self

\* mutant: the threshold is off by one
TooFewPoints_OffByOne(points) == Len(points) < MIN_LAP_POINTS - 1

TooFewPoints(points) == Len(points) < MIN_LAP_POINTS

InvalidLapTime(lap_time) == lap_time < MinLapTime \/ lap_time > MaxLapTime

\* mutant: any different lap time becomes the session best
IsSessionBest_Differs(lap_time, best_time) == lap_time # best_time

IsSessionBest(lap_time, best_time) == lap_time < best_time

\* mutant: the difference is taken the other way round
DeltaToSessionBest_Swapped(lap_time, best_time) ==
  IF best_time < Inf THEN Round3(best_time - lap_time) ELSE 0

DeltaToSessionBest(lap_time, best_time) ==
  IF best_time < Inf THEN Round3(lap_time - best_time) ELSE 0

LapIds(laps) == {laps[i].id : i \in 1..Len(laps)}

\* mutant: the previous best keeps its flag
RevokeBest_Skipped(laps, best_id) == laps

\* self.laps[self.session_best_id].isSessionBest = False
RevokeBest(laps, best_id) ==
  [i \in 1..Len(laps) |->
     IF laps[i].id = best_id THEN [laps[i] EXCEPT !.isSessionBest = FALSE]
     ELSE laps[i]]

\* mutant: the lap inserted last is removed, whatever the index
RemoveAt_Last(s, i) == SubSeq(s, 1, Len(s) - 1)

RemoveAt(s, i) == SubSeq(s, 1, i - 1) \o SubSeq(s, i + 1, Len(s))

\* mutant: the session best is not spared
OldestNonBest_AnyLap(laps, best_id) ==
  LET cand == 1..Len(laps)
  IN  IF cand = {} THEN 0
      ELSE CHOOSE i \in cand :
             \A j \in cand : \/ laps[i].completedAt < laps[j].completedAt
                             \/ (laps[i].completedAt = laps[j].completedAt /\ i <= j)

\* mutant: the newest lap is removed instead of the oldest
OldestNonBest_Newest(laps, best_id) ==
  LET cand == {i \in 1..Len(laps) : laps[i].id # best_id}
  IN  IF cand = {} THEN 0
      ELSE CHOOSE i \in cand :
             \A j \in cand : \/ laps[i].completedAt > laps[j].completedAt
                             \/ (laps[i].completedAt = laps[j].completedAt /\ i >= j)

\* the for loop of _enforce_limit: index of the first lap, in insertion order,
\* of least completedAt among those that are not the session best; 0 if none
OldestNonBest(laps, best_id) ==
  LET cand == {i \in 1..Len(laps) : laps[i].id # best_id}
  IN  IF cand = {} THEN 0
      ELSE CHOOSE i \in cand :
             \A j \in cand : \/ laps[i].completedAt < laps[j].completedAt
                             \/ (laps[i].completedAt = laps[j].completedAt /\ i <= j)

\* mutant: the limit is enforced one lap too late
enforce_limit_OneOver(limit, laps, best_id) ==
  IF Len(laps) > limit + 1
  THEN LET oldest == OldestNonBest(laps, best_id)
       IN  IF oldest # 0 THEN RemoveAt(laps, oldest) ELSE laps
  ELSE laps

RECURSIVE enforce_limit(_, _, _)
enforce_limit(limit, laps, best_id) ==
  IF Len(laps) > limit
  THEN LET oldest == OldestNonBest(laps, best_id)
       IN  IF oldest # 0
           THEN enforce_limit(limit, RemoveAt(laps, oldest), best_id)
           ELSE laps
  ELSE laps

complete_lap(self, lap_time, track_name, car_name, lap_id, t) ==
  IF ~self.recording_active \/ TooFewPoints(self.current_lap_points)
  THEN [self |-> [self EXCEPT !.recording_active = FALSE], ret |-> NoLap]
  ELSE IF InvalidLapTime(lap_time)
  THEN [self |-> [self EXCEPT !.recording_active = FALSE,
                              !.current_lap_points = <<>>],
        ret |-> NoLap]
  ELSE LET is_session_best == IsSessionBest(lap_time, self.session_best_time)
           lap == LapData(lap_id, self.current_lap_number, Round3(lap_time),
                          is_session_best, track_name, car_name, t,
                          self.current_lap_points,
                          DeltaToSessionBest(lap_time, self.session_best_time))
           revoked == IF is_session_best /\ self.session_best_id # NoneId
                         /\ self.session_best_id \in LapIds(self.laps)
                      THEN RevokeBest(self.laps, self.session_best_id)
                      ELSE self.laps
           best_id == IF is_session_best THEN lap_id ELSE self.session_best_id
       IN  [self |-> [self EXCEPT
                        !.session_best_id = best_id,
                        !.session_best_time =
                           IF is_session_best THEN lap_time ELSE @,
                        !.laps = enforce_limit(self.max_laps,
                                               Append(revoked, lap), best_id),
                        !.recording_active = FALSE,
                        !.current_lap_points = <<>>],
            ret |-> lap]

\* mutant: any lap time up to 1200.0 s is accepted for a pending lap
save_pending_lap_LooseTime(self, lap_time, lap_id, t) ==
  IF self.pending_lap_points = <<>> \/ TooFewPoints(self.pending_lap_points)
  THEN [self |-> [self EXCEPT !.pending_lap_points = <<>>], ret |-> NoLap]
  ELSE IF lap_time > MaxLapTime
  THEN [self |-> [self EXCEPT !.pending_lap_points = <<>>,
                              !.pending_lap_number = 0],
        ret |-> NoLap]
  ELSE LET is_session_best == IsSessionBest(lap_time, self.session_best_time)
           lap == LapData(lap_id, self.pending_lap_number, Round3(lap_time),
                          is_session_best, self.pending_lap_track,
                          self.pending_lap_car, t, self.pending_lap_points,
                          DeltaToSessionBest(lap_time, self.session_best_time))
           revoked == IF is_session_best /\ self.session_best_id # NoneId
                         /\ self.session_best_id \in LapIds(self.laps)
                      THEN RevokeBest(self.laps, self.session_best_id)
                      ELSE self.laps
           best_id == IF is_session_best THEN lap_id ELSE self.session_best_id
       IN  [self |-> [self EXCEPT
                        !.session_best_id = best_id,
                        !.session_best_time =
                           IF is_session_best THEN lap_time ELSE @,
                        !.pending_lap_points = <<>>,
                        !.pending_lap_number = 0,
                        !.pending_lap_track = "",
                        !.pending_lap_car = "",
                        !.laps = enforce_limit(self.max_laps,
                                               Append(revoked, lap), best_id)],
            ret |-> lap]

\* mutant: the lap is built from the live recorder instead of the pending lap
save_pending_lap_FromLiveBuffer(self, lap_time, lap_id, t) ==
  IF self.pending_lap_points = <<>> \/ TooFewPoints(self.pending_lap_points)
  THEN [self |-> [self EXCEPT !.pending_lap_points = <<>>], ret |-> NoLap]
  ELSE IF InvalidLapTime(lap_time)
  THEN [self |-> [self EXCEPT !.pending_lap_points = <<>>,
                              !.pending_lap_number = 0],
        ret |-> NoLap]
  ELSE LET is_session_best == IsSessionBest(lap_time, self.session_best_time)
           lap == LapData(lap_id, self.current_lap_number, Round3(lap_time),
                          is_session_best, self.pending_lap_track,
                          self.pending_lap_car, t, self.current_lap_points,
                          DeltaToSessionBest(lap_time, self.session_best_time))
           best_id == IF is_session_best THEN lap_id ELSE self.session_best_id
       IN  [self |-> [self EXCEPT
                        !.session_best_id = best_id,
                        !.session_best_time =
                           IF is_session_best THEN lap_time ELSE @,
                        !.pending_lap_points = <<>>,
                        !.pending_lap_number = 0,
                        !.pending_lap_track = "",
                        !.pending_lap_car = "",
                        !.laps = enforce_limit(self.max_laps,
                                               Append(self.laps, lap), best_id)],
            ret |-> lap]

save_pending_lap(self, lap_time, lap_id, t) ==
  IF self.pending_lap_points = <<>> \/ TooFewPoints(self.pending_lap_points)
  THEN [self |-> [self EXCEPT !.pending_lap_points = <<>>], ret |-> NoLap]
  ELSE IF InvalidLapTime(lap_time)
  THEN [self |-> [self EXCEPT !.pending_lap_points = <<>>,
                              !.pending_lap_number = 0],
        ret |-> NoLap]
  ELSE LET is_session_best == IsSessionBest(lap_time, self.session_best_time)
           lap == LapData(lap_id, self.pending_lap_number, Round3(lap_time),
                          is_session_best, self.pending_lap_track,
                          self.pending_lap_car, t, self.pending_lap_points,
                          DeltaToSessionBest(lap_time, self.session_best_time))
           revoked == IF is_session_best /\ self.session_best_id # NoneId
                         /\ self.session_best_id \in LapIds(self.laps)
                      THEN RevokeBest(self.laps, self.session_best_id)
                      ELSE self.laps
           best_id == IF is_session_best THEN lap_id ELSE self.session_best_id
       IN  [self |-> [self EXCEPT
                        !.session_best_id = best_id,
                        !.session_best_time =
                           IF is_session_best THEN lap_time ELSE @,
                        !.pending_lap_points = <<>>,
                        !.pending_lap_number = 0,
                        !.pending_lap_track = "",
                        !.pending_lap_car = "",
                        !.laps = enforce_limit(self.max_laps,
                                               Append(revoked, lap), best_id)],
            ret |-> lap]

\* mutant: the session best can be deleted too
delete_lap_AnyLap(self, lap_id) ==
  IF lap_id \in LapIds(self.laps)
  THEN [self |-> [self EXCEPT !.laps = SelectSeq(@, LAMBDA l : l.id # lap_id)],
        ret |-> TRUE]
  ELSE [self |-> self, ret |-> FALSE]

delete_lap(self, lap_id) ==
  IF lap_id = self.session_best_id THEN [self |-> self, ret |-> FALSE]
  ELSE IF lap_id \in LapIds(self.laps)
  THEN [self |-> [self EXCEPT !.laps = SelectSeq(@, LAMBDA l : l.id # lap_id)],
        ret |-> TRUE]
  ELSE [self |-> self, ret |-> FALSE]

\* mutant: the session best time survives the reset
reset_session_KeepsBestTime(self) ==
  [self EXCEPT !.laps = <<>>, !.session_best_id = NoneId,
               !.current_lap_points = <<>>, !.recording_active = FALSE,
               !.pending_lap_points = <<>>, !.pending_lap_number = 0,
               !.pending_lap_track = "", !.pending_lap_car = "",
               !.pending_lap_created_at = 0]

\* mutant: the pending lap survives the reset
reset_session_KeepsPending(self) ==
  [self EXCEPT !.laps = <<>>, !.session_best_id = NoneId,
               !.session_best_time = Inf,
               !.current_lap_points = <<>>, !.recording_active = FALSE]

reset_session(self) ==
  [self EXCEPT !.laps = <<>>, !.session_best_id = NoneId,
               !.session_best_time = Inf,
               !.current_lap_points = <<>>, !.recording_active = FALSE,
               !.pending_lap_points = <<>>, !.pending_lap_number = 0,
               !.pending_lap_track = "", !.pending_lap_car = "",
               !.pending_lap_created_at = 0]

\* mutant: the names of the pending lap are left behind
clear_pending_lap_KeepsNames(self) ==
  [self EXCEPT !.pending_lap_points = <<>>, !.pending_lap_number = 0,
               !.pending_lap_created_at = 0]

clear_pending_lap(self) ==
  [self EXCEPT !.pending_lap_points = <<>>, !.pending_lap_number = 0,
               !.pending_lap_track = "", !.pending_lap_car = "",
               !.pending_lap_created_at = 0]

\* ------------------------------------------- IRacingTelemetryService (capture)
\* round(x, 4) on a value in 1/100000, result in 1/10000
Round4(x) ==
  LET q == x \div 10
      r == x % 10
  IN  IF r > 5 \/ (r = 5 /\ q % 2 = 1) THEN q + 1 ELSE q

\* mutant: a pending lap never times out
PendingExpired_Never(age) == FALSE

PendingExpired(age) == age > PendingTimeout

\* mutant: any non-empty buffer becomes the pending lap
EnoughForPending_Any(points) == Len(points) > 0

EnoughForPending(points) == Len(points) > MIN_LAP_POINTS

LapChanged(current_lap, prev_lap) == current_lap > prev_lap /\ prev_lap > 0

\* lines 1508-1512: the live buffer becomes the pending lap
MakePending(self, prev_lap, track_name, car_name, t) ==
  [self EXCEPT !.pending_lap_points = self.current_lap_points,
               !.pending_lap_number = prev_lap,
               !.pending_lap_track = track_name,
               !.pending_lap_car = car_name,
               !.pending_lap_created_at = t]

\* mutant: a positive lap time resolves the pending lap before its age is
\* looked at
PendingStage_ResolveFirst(self, f, lap_id, t) ==
  IF Len(self.pending_lap_points) > 0
  THEN IF f.LapLastLapTime > 0
       THEN save_pending_lap(self, f.LapLastLapTime, lap_id, t)
       ELSE IF PendingExpired(t - self.pending_lap_created_at)
       THEN [self |-> clear_pending_lap(self), ret |-> NoLap]
       ELSE [self |-> self, ret |-> NoLap]
  ELSE [self |-> self, ret |-> NoLap]

\* the pending-lap stage: time out, resolve, or leave alone
PendingStage(self, f, lap_id, t) ==
  IF Len(self.pending_lap_points) > 0
  THEN IF PendingExpired(t - self.pending_lap_created_at)
       THEN [self |-> clear_pending_lap(self), ret |-> NoLap]
       ELSE IF f.LapLastLapTime > 0
       THEN save_pending_lap(self, f.LapLastLapTime, lap_id, t)
       ELSE [self |-> self, ret |-> NoLap]
  ELSE [self |-> self, ret |-> NoLap]

\* the lap-change stage, entered when LapChanged holds
LapChangeStage(self, prev_lap, f, lap_id, t) ==
  LET done == IF f.LapLastLapTime > 0
              THEN complete_lap(self, f.LapLastLapTime, f.TrackDisplayName,
                                f.CarScreenName, lap_id, t)
              ELSE IF EnoughForPending(self.current_lap_points)
              THEN [self |-> MakePending(self, prev_lap, f.TrackDisplayName,
                                         f.CarScreenName, t),
                    ret |-> NoLap]
              ELSE [self |-> self, ret |-> NoLap]
  IN  [self |-> start_lap(done.self, f.Lap), ret |-> done.ret]

\* first-lap detection and point capture
CaptureStage(self, prev_lap, f) ==
  LET first   == f.Lap > 0 /\ prev_lap = 0
      started == IF first THEN start_lap(self, f.Lap) ELSE self
      point   == TelemetryPoint(Round4(f.LapDistPct))
  IN  [self |-> IF f.on_track /\ started.recording_active
                THEN add_point(started, point) ELSE started,
       prev |-> IF first THEN f.Lap ELSE prev_lap]

\* capture_lap_telemetry: the new lap storage, prev_lap_for_capture,
\* last_lap_capture_time and the returned lap
capture_lap_telemetry(self, is_conn, prev_lap, last_capture, f, lap_id, t) ==
  IF ~is_conn \/ ~f.is_connected THEN
    [self |-> self, prev |-> prev_lap, last |-> last_capture, ret |-> NoLap]
  ELSE IF t - last_capture < LAP_CAPTURE_INTERVAL
  THEN [self |-> self, prev |-> prev_lap, last |-> last_capture, ret |-> NoLap]
  ELSE LET p == PendingStage(self, f, lap_id, t)
       IN  IF p.ret.id # NoneId
           THEN [self |-> p.self, prev |-> prev_lap, last |-> t, ret |-> p.ret]
           ELSE IF LapChanged(f.Lap, prev_lap)
           THEN LET c == LapChangeStage(p.self, prev_lap, f, lap_id, t)
                IN  [self |-> c.self, prev |-> f.Lap, last |-> t, ret |-> c.ret]
           ELSE LET c == CaptureStage(p.self, prev_lap, f)
                IN  [self |-> c.self, prev |-> c.prev, last |-> t, ret |-> NoLap]

\* ------------------------------------------ OpponentSectorTracker (1 Hz loop)
OpponentSectorTracker_init == [car_states |-> << >>]

\* OpponentSectorTracker.reset
sector_reset(self) == [self EXCEPT !.car_states = << >>]

get_sector_from_dist(dist_pct) ==
  IF dist_pct < SectorOneEnd THEN 1
  ELSE IF dist_pct < SectorTwoEnd THEN 2 ELSE 3

SectorKey(sector) == IF sector = 1 THEN "s1" ELSE IF sector = 2 THEN "s2" ELSE "s3"

\* the state of a car seen for the first time
NewCarState(dist_pct, session_time) ==
  [last_dist |-> dist_pct, last_sector |-> get_sector_from_dist(dist_pct),
   sector_times |-> [s1 |-> NoTime, s2 |-> NoTime, s3 |-> NoTime],
   sector_start_time |-> session_time, last_session_time |-> session_time]

\* mutant: every change of sector closes the sector left
SectorCompleted_AnyChange(last_sector, current_sector) ==
  current_sector # last_sector

\* the lap wrap 3 -> 1 or the normal progression last -> last + 1
SectorCompleted(last_sector, current_sector) ==
  \/ (last_sector = 3 /\ current_sector = 1)
  \/ current_sector = last_sector + 1

\* mutant: no sanity check of the elapsed time
ValidSectorTime_Any(sector_time) == TRUE

\* 0 < sector_time < 300
ValidSectorTime(sector_time) == 0 < sector_time /\ sector_time < MaxSectorTime

\* mutant: sector_start_time is never set again
SectorStartTime_Never(state, completed, session_time) ==
  state.sector_start_time

\* sector_start_time after a change of sector: the session time if a sector
\* was closed, else what it was
SectorStartTime(state, completed, session_time) ==
  IF completed THEN session_time ELSE state.sector_start_time

\* the body of the loop of update for a car that has a state
UpdateCarState(state, dist_pct, session_time) ==
  LET last_sector    == state.last_sector
      current_sector == get_sector_from_dist(dist_pct)
      sector_time    == session_time - state.sector_start_time
      completed      == SectorCompleted(last_sector, current_sector)
      timed == IF completed /\ ValidSectorTime(sector_time)
               THEN [state.sector_times EXCEPT
                       ![SectorKey(last_sector)] = Round3(sector_time)]
               ELSE state.sector_times
  IN  IF current_sector # last_sector
      THEN [last_dist |-> dist_pct, last_sector |-> current_sector,
            sector_times |-> timed,
            sector_start_time |->
               SectorStartTime(state, completed, session_time),
            last_session_time |-> session_time]
      ELSE [state EXCEPT !.last_dist = dist_pct,
                         !.last_session_time = session_time]

\* a car the loop of update does not skip
SectorTracked(lap_dist_pcts, track_surfaces, car_idx) ==
  /\ car_idx <= Len(lap_dist_pcts) /\ car_idx <= max_cars
  /\ lap_dist_pcts[car_idx] >= 0
  /\ car_idx <= Len(track_surfaces)
  /\ track_surfaces[car_idx] >= 0

\* OpponentSectorTracker.update
sector_update(self, lap_dist_pcts, track_surfaces, session_time) ==
  LET old  == self.car_states
      seen == {c \in 1..Len(lap_dist_pcts) :
                 SectorTracked(lap_dist_pcts, track_surfaces, c)}
  IN  [self EXCEPT !.car_states =
         [c \in DOMAIN old \cup seen |->
            IF c \notin seen THEN old[c]
            ELSE IF c \notin DOMAIN old
            THEN NewCarState(lap_dist_pcts[c], session_time)
            ELSE UpdateCarState(old[c], lap_dist_pcts[c], session_time)]]

\* ------------------------------------------------------- spotter (1 Hz loop)
Spotter_init ==
  [spotter_state |-> "clear", spotter_frames_in_state |-> 0,
   spotter_last_call |-> 0, last_spotter_emit |-> 0]

NoEvent == [call |-> "none", variant |-> 0]

\* _detect_proximity: the sides CarLeftRight reports a car on
detect_proximity(car_left_right) ==
  [car_left |-> car_left_right \in {2, 4, 5},
   car_right |-> car_left_right \in {3, 4, 6}]

SpotterNewState(proximity) ==
  IF proximity.car_left /\ proximity.car_right THEN "three_wide"
  ELSE IF proximity.car_left THEN "car_left"
  ELSE IF proximity.car_right THEN "car_right"
  ELSE "clear"

ClearCall(old_state) ==
  IF old_state = "three_wide" THEN "clear_all_around"
  ELSE IF old_state = "car_left" THEN "clear_left"
  ELSE IF old_state = "car_right" THEN "clear_right"
  ELSE "clear"

StillCall(state) ==
  IF state = "car_left" THEN "still_left"
  ELSE IF state = "car_right" THEN "still_right"
  ELSE "still_three_wide"

ThreatStates == {"car_left", "car_right", "three_wide"}

\* mutant: a change into a threat state is always called
CooldownElapsed_Always(self, t) == TRUE

CooldownElapsed(self, t) == t - self.spotter_last_call >= spotter_cooldown

\* mutant: a reminder is due as soon as the cooldown has elapsed
StillDue_AfterCooldown(self, t) ==
  /\ self.spotter_state \in ThreatStates
  /\ t - self.spotter_last_call >= spotter_cooldown

StillDue(self, t) ==
  /\ self.spotter_state \in ThreatStates
  /\ t - self.spotter_last_call >= spotter_still_interval

\* mutant: the reminders do not rotate
StillVariant_First(frames_in_state) == 1

StillVariant(frames_in_state) == (frames_in_state % 3) + 1

\* mutant: a clear call leaves spotter_last_call as it was
ClearLastCall_Kept(self, t) == self.spotter_last_call

\* spotter_last_call after a clear call: a clear call counts as a call
ClearLastCall(self, t) == t

\* _update_spotter_state: the new spotter fields and the call to make
update_spotter_state(self, proximity, t) ==
  LET new_state == SpotterNewState(proximity)
  IN  IF new_state # self.spotter_state
      THEN IF new_state = "clear"
           THEN [self |-> [self EXCEPT !.spotter_state = new_state,
                                       !.spotter_frames_in_state = 0,
                                       !.spotter_last_call =
                                          ClearLastCall(self, t)],
                 event |-> [call |-> ClearCall(self.spotter_state), variant |-> 0]]
           ELSE IF CooldownElapsed(self, t)
           THEN [self |-> [self EXCEPT !.spotter_state = new_state,
                                       !.spotter_frames_in_state = 0,
                                       !.spotter_last_call = t],
                 event |-> [call |-> new_state, variant |-> 0]]
           ELSE [self |-> [self EXCEPT !.spotter_state = new_state,
                                       !.spotter_frames_in_state = 0],
                 event |-> NoEvent]
      ELSE IF StillDue(self, t)
           THEN [self |-> [self EXCEPT !.spotter_last_call = t,
                                       !.spotter_frames_in_state = @ + 1],
                 event |-> [call |-> StillCall(self.spotter_state),
                            variant |-> StillVariant(self.spotter_frames_in_state)]]
           ELSE [self |-> self, event |-> NoEvent]

\* ------------------------------------------- previous frame, session tracking
Tracking_init ==
  [prev_lap |-> 0, prev_flag |-> 0, prev_position |-> 0, prev_in_pit |-> FALSE,
   prev_incidents |-> 0, prev_session_state |-> 0,
   current_session_id |-> -1, session_joined_sent |-> FALSE]

\* SessionTime (1/10000 s) at wall clock time t (ms)
SessionTimeAt(t) == t * 10

QualifyTypes == {"Lone Qualify", "Open Qualify"}

\* is_session_active, for a connected service
is_session_active(f) == f.SessionState \in {2, 3, 4, 5}

\* read_telemetry: the sector tracker is updated unless the session is a
\* qualifying one, and the frame becomes the previous frame
read_telemetry(self_tracking, self_sectors, f, t) ==
  [tracking |-> [self_tracking EXCEPT
                   !.prev_lap = f.Lap, !.prev_flag = f.SessionFlags,
                   !.prev_position = f.Position, !.prev_in_pit = f.OnPitRoad,
                   !.prev_incidents = f.Incidents,
                   !.prev_session_state = f.SessionState],
   sector_tracker |->
     IF f.SessionType \in QualifyTypes THEN self_sectors
     ELSE sector_update(self_sectors, f.CarIdxLapDistPct, f.CarIdxTrackSurface,
                        SessionTimeAt(t))]

\* one element of the list detect_events returns: its type and, for a spotter
\* event, the call and the number of the reminder variant (still_left_2 is
\* the call still_left with variant 2)
Event(type) == [type |-> type, call |-> "none", variant |-> 0]

SpotterEvent(event) ==
  [type |-> "spotter", call |-> event.call, variant |-> event.variant]

\* the rules of detect_events that compare the frame to the previous one, in
\* the order of the code
DiffEvents(self_tracking, f) ==
     (IF f.Lap > self_tracking.prev_lap /\ self_tracking.prev_lap > 0
      THEN <<Event("lap_complete")>> ELSE << >>)
  \o (IF f.SessionFlags # self_tracking.prev_flag
      THEN <<Event("flag_change")>> ELSE << >>)
  \o (IF f.Position # self_tracking.prev_position
         /\ self_tracking.prev_position > 0
      THEN <<Event("position_change")>> ELSE << >>)
  \o (IF f.OnPitRoad # self_tracking.prev_in_pit
      THEN <<Event(IF f.OnPitRoad THEN "pit_entry" ELSE "pit_exit")>>
      ELSE << >>)
  \o (IF f.Incidents > self_tracking.prev_incidents
      THEN <<Event("incident")>> ELSE << >>)
  \o (IF f.SessionState # self_tracking.prev_session_state
      THEN <<Event("session_state_change")>> ELSE << >>)

\* detect_events: session tracking, the frame-diff rules and the spotter.
\* Reading WeekendInfo (in the session_joined rule, after the session
\* tracking fields are set) is not guarded: when it raises, the exception
\* leaves detect_events and no list is returned.  Reading DriverInfo is
\* guarded: when it raises, num_cars is 0.
detect_events(self_tracking, self_spotter, f, t) ==
  LET joined == \/ f.SessionNum # self_tracking.current_session_id
                \/ ~self_tracking.session_joined_sent
      tracked == IF joined
                 THEN [self_tracking EXCEPT !.current_session_id = f.SessionNum,
                                            !.session_joined_sent = TRUE]
                 ELSE self_tracking
      num_cars == IF f.raises = "DriverInfo" THEN 0 ELSE f.num_cars
      spot == IF /\ is_session_active(f) /\ ~f.OnPitRoad /\ ~f.InGarage
                 /\ f.SessionType \notin QualifyTypes /\ num_cars > 1
              THEN update_spotter_state(self_spotter,
                                        detect_proximity(f.CarLeftRight), t)
              ELSE [self |-> self_spotter, event |-> NoEvent]
      emit == /\ spot.event # NoEvent
              /\ t - self_spotter.last_spotter_emit >= SpotterEmitGap
  IN  IF joined /\ f.raises = "WeekendInfo"
      THEN [tracking |-> tracked, spotter |-> self_spotter, events |-> << >>,
            raised |-> TRUE]
      ELSE [tracking |-> tracked,
            spotter |-> [spot.self EXCEPT !.last_spotter_emit =
                                             IF emit THEN t ELSE @],
            events |->    (IF joined THEN <<Event("session_joined")>> ELSE << >>)
                       \o DiffEvents(self_tracking, f)
                       \o (IF emit THEN <<SpotterEvent(spot.event)>> ELSE << >>),
            raised |-> FALSE]

\* ---------------------------------------------------------------- the calls
\* what the last call was, the lap it returned (NoLap for None) and the ids
\* its _enforce_limit removed
Call(op, ret, evicted) == [op |-> op, ret |-> ret, evicted |-> evicted]

Evicted(before, after, ret) ==
  IF ret.id = NoneId THEN {}
  ELSE (LapIds(before.laps) \cup {ret.id}) \ LapIds(after.laps)

\* what a capture tick read: the frame's Lap and LapLastLapTime, whether the
\* time check let it run, and the age of the pending lap it found (-1: none)
Tick(f, ran, age) ==
  [Lap |-> f.Lap, LapLastLapTime |-> f.LapLastLapTime, ran |-> ran, age |-> age]

NoTick == [Lap |-> 0, LapLastLapTime |-> 0, ran |-> FALSE, age |-> -1]

\* what an iteration of telemetry_loop read and emitted: the frame, the
\* spotter fields it found, whether detect_events was called, the list it
\* returned, whether an exception left it; and, since the last disconnect, the session numbers a session_joined
\* event was emitted for and the number of reminders emitted since the stored
\* spotter state last changed
NoFrame == [Lap |-> 0]

NoEmitted ==
  [frame |-> NoFrame, before |-> Spotter_init, evaluated |-> FALSE,
   events |-> << >>, raised |-> FALSE, joined |-> {}, reminders |-> 0]

EventTypes(events) == {events[i].type : i \in DOMAIN events}

SpotterCalls(events) ==
  {events[i] : i \in {j \in DOMAIN events : events[j].type = "spotter"}}

Reminders(events) == {e \in SpotterCalls(events) : e.variant > 0}

Emitted(old, f, before, evaluated, e) ==
  [frame |-> f, before |-> before, evaluated |-> evaluated,
   events |-> e.events, raised |-> e.raised,
   joined |-> IF "session_joined" \in EventTypes(e.events)
              THEN old.joined \cup {f.SessionNum} ELSE old.joined,
   reminders |-> IF e.spotter.spotter_state # before.spotter_state THEN 0
                 ELSE old.reminders + Cardinality(Reminders(e.events))]

\* the two coroutines main hands to asyncio.gather
Tasks == {"telemetry_loop", "lap_capture_loop"}

\* the calls of the two loops into the service; none of them is a coroutine
ServiceCalls ==
  {"connect", "disconnect", "read_telemetry", "detect_events",
   "capture_lap_telemetry"}

\* the await statements of the two loops
Sleeps == {"sleep_reconnect", "sleep_poll", "sleep_idle", "sleep_capture"}
Broadcasts ==
  {"broadcast_disconnected", "broadcast_event", "broadcast_snapshot",
   "broadcast_lap_recorded", "broadcast_lap_data"}

\* the two coroutines: the statement each is at, the call into the service
\* each is inside ("none": not inside one), the coroutine the event loop is
\* running ("none": all are suspended at an await), the events of the
\* iteration telemetry_loop has still to broadcast, and what
\* telemetry.ir.is_connected reads
Loops_init ==
  [pc |-> [t \in Tasks |-> "top"],
   inside |-> [t \in Tasks |-> "none"],
   current |-> "none",
   events |-> 0,
   is_connected |-> FALSE]

\* the websocket connections, numbered
Websockets == 1..MaxClients

\* an activation of broadcast: whether it is in progress, the size of
\* self.clients when the for loop made its iterator, the clients the iterator
\* has yielded, the client whose send is awaited (0: none), dead_clients;
\* and, for the observer, self.clients at the start, the clients the message
\* was sent to, and whether an exception left broadcast
NoBroadcast ==
  [active |-> FALSE, used |-> 0, visited |-> {}, awaiting |-> 0,
   dead_clients |-> {}, initial |-> {}, delivered |-> {}, raised |-> FALSE]

PendingAge(self, t) ==
  IF Len(self.pending_lap_points) > 0 THEN t - self.pending_lap_created_at ELSE -1

\* the state after construction, the lap store aside
InitService ==
  /\ connected = FALSE
  /\ prev_lap_for_capture = 0
  /\ last_lap_capture_time = 0
  /\ now = 1000
  /\ uuid_next = 1
  /\ call = Call("init", NoLap, {})
  /\ tick = NoTick
  /\ spotter = Spotter_init
  /\ sector_tracker = OpponentSectorTracker_init
  /\ tracking = Tracking_init
  /\ running = TRUE
  /\ emitted = NoEmitted
  /\ clients = {}
  /\ broadcast = NoBroadcast
  /\ sockets = [c \in Websockets |-> "new"]
  /\ loops = Loops_init

Init ==
  /\ lap_storage = LapStorageService_init
  /\ InitService

\* the lap store constructed with any max_laps from 1 on
InitLimit ==
  /\ \E limit \in 1..max_laps : lap_storage = LapStorageService_new(limit)
  /\ InitService

Service == <<connected, prev_lap_for_capture, last_lap_capture_time>>

Telemetry == <<spotter, sector_tracker, tracking>>

Server == <<clients, broadcast, sockets, loops>>

\* time passes between two ticks of the capture loop
AdvanceClock ==
  /\ \E dt \in ClockSteps : now + dt <= MaxClock /\ now' = now + dt
  /\ UNCHANGED <<Server, running, emitted, Telemetry, tick, lap_storage, Service, uuid_next, call>>

\* time passes between two direct calls
Elapse ==
  /\ \E dt \in ClockSteps : now + dt <= MaxStoreClock /\ now' = now + dt
  /\ UNCHANGED <<Server, running, emitted, Telemetry, tick, lap_storage, Service, uuid_next, call>>

StartLap ==
  /\ \E n \in 1..MaxStartLap :
       /\ lap_storage' = start_lap(lap_storage, n)
       /\ call' = Call("start_lap", NoLap, {})
  /\ UNCHANGED <<Server, running, emitted, Telemetry, tick, Service, now, uuid_next>>

AddPoint ==
  /\ Len(lap_storage.current_lap_points) < MaxPoints
  /\ \E d \in StoreDistancePcts :
       /\ lap_storage' = add_point(lap_storage, TelemetryPoint(d))
       /\ call' = Call("add_point", NoLap, {})
  /\ UNCHANGED <<Server, running, emitted, Telemetry, tick, Service, now, uuid_next>>

\* add_point with a point anywhere on the lap
AddPointAt ==
  /\ Len(lap_storage.current_lap_points) < MaxPoints
  /\ \E d \in DistancePcts :
       /\ lap_storage' = add_point(lap_storage, TelemetryPoint(d))
       /\ call' = Call("add_point", NoLap, {})
  /\ UNCHANGED <<Server, running, emitted, Telemetry, tick, Service, now, uuid_next>>

CompleteLap ==
  /\ uuid_next <= MaxUuid
  /\ \E lap_time \in LapTimes, track \in TrackNames, car \in CarNames :
     \E r \in {complete_lap(lap_storage, lap_time, track, car, uuid_next, now)} :
           /\ lap_storage' = r.self
           /\ call' = Call("complete_lap", r.ret, Evicted(lap_storage, r.self, r.ret))
           /\ uuid_next' = IF r.ret.id # NoneId THEN uuid_next + 1 ELSE uuid_next
  /\ UNCHANGED <<Server, running, emitted, Telemetry, tick, Service, now>>

SavePendingLap ==
  /\ uuid_next <= MaxUuid
  /\ \E lap_time \in LapTimes :
     \E r \in {save_pending_lap(lap_storage, lap_time, uuid_next, now)} :
           /\ lap_storage' = r.self
           /\ call' = Call("save_pending_lap", r.ret, Evicted(lap_storage, r.self, r.ret))
           /\ uuid_next' = IF r.ret.id # NoneId THEN uuid_next + 1 ELSE uuid_next
  /\ UNCHANGED <<Server, running, emitted, Telemetry, tick, Service, now>>

DeleteLap ==
  /\ \E lap_id \in 1..MaxUuid :
       LET r == delete_lap(lap_storage, lap_id)
       IN  /\ lap_storage' = r.self
           /\ call' = Call("delete_lap", NoLap, {})
  /\ UNCHANGED <<Server, running, emitted, Telemetry, tick, Service, now, uuid_next>>

ResetSession ==
  /\ lap_storage' = reset_session(lap_storage)
  /\ call' = Call("reset_session", NoLap, {})
  /\ UNCHANGED <<Server, running, emitted, Telemetry, tick, Service, now, uuid_next>>

\* telemetry_loop calls connect() while it is not connected
Connect ==
  /\ running
  /\ ~connected
  /\ connected' = TRUE
  /\ call' = Call("connect", NoLap, {})
  /\ UNCHANGED <<Server, running, emitted, Telemetry, tick, lap_storage, prev_lap_for_capture, last_lap_capture_time, now,
                 uuid_next>>

\* mutant: the spotter is left as it was
reset_state_KeepsSpotter(self_tracking, self_spotter, self_laps, self_sectors, preserve_laps) ==
  [tracking |-> [self_tracking EXCEPT
                   !.prev_lap = 0, !.prev_flag = 0, !.prev_position = 0,
                   !.prev_in_pit = FALSE, !.prev_incidents = 0,
                   !.prev_session_state = 0,
                   !.current_session_id = -1, !.session_joined_sent = FALSE],
   spotter |-> self_spotter,
   lap_storage |-> IF preserve_laps THEN self_laps ELSE reset_session(self_laps),
   sector_tracker |-> sector_reset(self_sectors)]

\* _reset_state(preserve_laps): what it does to the tracking fields, the
\* spotter, the lap storage and the sector tracker
reset_state(self_tracking, self_spotter, self_laps, self_sectors, preserve_laps) ==
  [tracking |-> [self_tracking EXCEPT
                   !.prev_lap = 0, !.prev_flag = 0, !.prev_position = 0,
                   !.prev_in_pit = FALSE, !.prev_incidents = 0,
                   !.prev_session_state = 0,
                   !.current_session_id = -1, !.session_joined_sent = FALSE],
   spotter |-> [self_spotter EXCEPT !.spotter_state = "clear",
                                    !.spotter_frames_in_state = 0,
                                    !.spotter_last_call = 0],
   lap_storage |-> IF preserve_laps THEN self_laps ELSE reset_session(self_laps),
   sector_tracker |-> sector_reset(self_sectors)]

\* disconnect() -> _reset_state(preserve_laps=True); telemetry_loop calls it
\* when the simulator is gone, main calls it when a loop has ended
DisconnectAt(t) ==
  /\ connected' = FALSE
  /\ now' = t
  /\ prev_lap_for_capture' = 0
  /\ \E r \in {reset_state(tracking, spotter, lap_storage, sector_tracker, TRUE)} :
       /\ tracking' = r.tracking
       /\ spotter' = r.spotter
       /\ lap_storage' = r.lap_storage
       /\ sector_tracker' = r.sector_tracker
  /\ call' = Call("disconnect", NoLap, {})
  /\ emitted' = NoEmitted
  /\ UNCHANGED <<Server, running, tick, last_lap_capture_time, uuid_next>>

Disconnect ==
  /\ connected
  /\ DisconnectAt(now)

\* the iteration of telemetry_loop that finds the simulator gone: disconnect()
\* and the sleep of RECONNECT_DELAY that follows before the loop goes on
DisconnectSpotter ==
  /\ connected
  /\ now + RECONNECT_DELAY <= MaxSpotterClock
  /\ DisconnectAt(now + RECONNECT_DELAY)

\* time passes between two iterations of telemetry_loop
ElapseTelemetry ==
  /\ \E dt \in ClockSteps : now + dt <= MaxTelemetryClock /\ now' = now + dt
  /\ UNCHANGED <<Server, running, emitted, Telemetry, tick, lap_storage, Service, uuid_next, call>>

\* the body of an iteration of telemetry_loop while connected, over the frame
\* f at wall clock time t: read_telemetry, then detect_events if the session
\* is active; an exception that leaves detect_events leaves telemetry_loop too
TelemetryIteration(f, t) ==
  /\ now' = t
  /\ \E r \in {read_telemetry(tracking, sector_tracker, f, t)} :
     \E e \in {IF is_session_active(f)
                THEN detect_events(r.tracking, spotter, f, t)
                ELSE [tracking |-> r.tracking, spotter |-> spotter,
                      events |-> << >>, raised |-> FALSE]} :
           /\ tracking' = e.tracking
           /\ spotter' = e.spotter
           /\ sector_tracker' = r.sector_tracker
           /\ running' = ~e.raised
           /\ emitted' = Emitted(emitted, f, spotter, is_session_active(f), e)
  /\ call' = Call("read_telemetry", NoLap, {})
  /\ UNCHANGED <<Server, tick, lap_storage, Service, uuid_next>>

\* one iteration of telemetry_loop while connected
ReadTelemetry ==
  /\ running
  /\ connected
  /\ \E f \in TelemetryFrames : TelemetryIteration(f, now)

\* handler, first part: a connection is made and registered
Register ==
  /\ \E c \in Websockets :
       /\ sockets[c] = "new"
       /\ sockets' = [sockets EXCEPT ![c] = "open"]
       /\ clients' = clients \cup {c}
  /\ UNCHANGED <<broadcast, loops, running, emitted, Telemetry, tick,
                 lap_storage, Service, now, uuid_next, call>>

\* the peer of an open connection stops reading
StallSocket ==
  /\ \E c \in Websockets :
       /\ sockets[c] = "open"
       /\ sockets' = [sockets EXCEPT ![c] = "stalled"]
  /\ UNCHANGED <<clients, broadcast, loops, running, emitted, Telemetry,
                 tick, lap_storage, Service, now, uuid_next, call>>

\* the peer of an open connection goes away, or a stalled connection is
\* closed
CloseSocket ==
  /\ \E c \in Websockets :
       /\ sockets[c] \in {"open", "stalled"}
       /\ sockets' = [sockets EXCEPT ![c] = "closed"]
  /\ UNCHANGED <<clients, broadcast, loops, running, emitted, Telemetry,
                 tick, lap_storage, Service, now, uuid_next, call>>

\* handler, last part: the iteration over the messages of a closed connection
\* ends and the finally clause unregisters it
Unregister ==
  /\ \E c \in Websockets :
       /\ sockets[c] = "closed"
       /\ sockets' = [sockets EXCEPT ![c] = "gone"]
       /\ clients' = clients \ {c}
  /\ UNCHANGED <<broadcast, loops, running, emitted, Telemetry, tick,
                 lap_storage, Service, now, uuid_next, call>>

\* telemetry_loop calls broadcast: up to the first await.  With no client it
\* returns; otherwise the for loop makes its iterator over self.clients,
\* takes a first client and awaits its send.
BroadcastBegin ==
  /\ running
  /\ ~broadcast.active
  /\ IF clients = {}
     THEN broadcast' = NoBroadcast
     ELSE \E c \in clients :
            broadcast' = [active |-> TRUE, used |-> Cardinality(clients),
                          visited |-> {c}, awaiting |-> c,
                          dead_clients |-> {}, initial |-> clients,
                          delivered |-> {}, raised |-> FALSE]
  /\ UNCHANGED <<clients, sockets, loops, running, emitted, Telemetry, tick,
                 lap_storage, Service, now, uuid_next, call>>

\* broadcast from the end of one await to the next await or to its end: the
\* awaited send returns, or raises and the client is added to dead_clients;
\* the iterator raises RuntimeError if self.clients changed size since it was
\* made, and the exception leaves broadcast and telemetry_loop; otherwise the
\* next client's send is awaited, or the loop is over and the dead clients
\* are discarded.  The send to a stalled connection does not return.
BroadcastResume ==
  /\ broadcast.active
  /\ sockets[broadcast.awaiting] # "stalled"
  /\ LET c    == broadcast.awaiting
         sent == sockets[c] = "open"
         b    == [broadcast EXCEPT
                    !.awaiting = 0,
                    !.dead_clients = IF sent THEN @ ELSE @ \cup {c},
                    !.delivered = IF sent THEN @ \cup {c} ELSE @]
     IN  IF Cardinality(clients) # broadcast.used
         THEN /\ broadcast' = [b EXCEPT !.active = FALSE, !.raised = TRUE]
              /\ running' = FALSE
              /\ clients' = clients
         ELSE IF clients \ broadcast.visited = {}
         THEN /\ broadcast' = [b EXCEPT !.active = FALSE]
              /\ running' = running
              /\ clients' = clients \ b.dead_clients
         ELSE /\ \E d \in clients \ broadcast.visited :
                   broadcast' = [b EXCEPT !.awaiting = d,
                                          !.visited = @ \cup {d}]
              /\ running' = running
              /\ clients' = clients
  /\ UNCHANGED <<sockets, loops, emitted, Telemetry, tick, lap_storage,
                 Service, now, uuid_next, call>>

\* mutant: capture_lap_telemetry gives up the event loop before it returns
CallYields_Capture(c) == c = "capture_lap_telemetry"

\* whether a call into the service gives up the event loop before it
\* returns: the service's methods are plain functions without an await
CallYields(c) == FALSE

\* a coroutine calls into the service: the call has begun
EnterCall(t) ==
  /\ loops.pc[t] \in ServiceCalls
  /\ loops.inside[t] = "none"
  /\ loops' = [loops EXCEPT
                !.inside[t] = loops.pc[t],
                !.current = IF CallYields(loops.pc[t]) THEN "none" ELSE t]
  /\ connected' = connected

\* a coroutine executes the await statement it is at and goes on at next:
\* asyncio.sleep suspends it; server.broadcast suspends it unless it
\* returns without awaiting a send
Await(t, next, events) ==
  /\ \E suspends \in BOOLEAN :
       /\ loops.pc[t] \in Sleeps => suspends
       /\ loops' = [loops EXCEPT
                     !.pc[t] = next,
                     !.events = events,
                     !.current = IF suspends THEN "none" ELSE t]
  /\ connected' = connected

\* telemetry_loop after "Check if still connected"
AfterConnected(is_connected) ==
  IF is_connected THEN "read_telemetry" ELSE "disconnect"

\* telemetry_loop after the events: the snapshot if it is due
AfterEvents(due) == IF due THEN "broadcast_snapshot" ELSE "sleep_poll"

\* the simulator starts or stops: telemetry.ir.is_connected changes
SimulatorChange ==
  /\ running
  /\ loops' = [loops EXCEPT !.is_connected = ~@]
  /\ connected' = connected
  /\ UNCHANGED <<clients, broadcast, sockets, running, emitted, Telemetry,
                 tick, lap_storage, prev_lap_for_capture,
                 last_lap_capture_time, now, uuid_next, call>>

\* the event loop runs a coroutine that is suspended
ResumeTask ==
  /\ running
  /\ loops.current = "none"
  /\ \E t \in Tasks : loops' = [loops EXCEPT !.current = t]
  /\ connected' = connected
  /\ UNCHANGED <<clients, broadcast, sockets, running, emitted, Telemetry,
                 tick, lap_storage, prev_lap_for_capture,
                 last_lap_capture_time, now, uuid_next, call>>

\* telemetry_loop, one statement at a time, while the event loop runs it
telemetry_loop ==
  /\ loops.current = "telemetry_loop"
  /\ LET t  == "telemetry_loop"
         pc == loops.pc[t]
         in == loops.inside[t]
         Return(next, events) ==
           loops' = [loops EXCEPT !.inside[t] = "none", !.pc[t] = next,
                                  !.events = events]
     IN  \/ /\ pc = "top"
            /\ loops' = [loops EXCEPT !.pc[t] =
                          IF ~connected THEN "connect"
                          ELSE AfterConnected(loops.is_connected)]
            /\ connected' = connected
         \/ EnterCall(t)
         \/ /\ in = "connect"
            /\ \E ok \in BOOLEAN :
                 /\ connected' = ok
                 /\ Return(IF ok THEN AfterConnected(loops.is_connected)
                                 ELSE "sleep_reconnect", 0)
         \/ /\ in = "disconnect"
            /\ connected' = FALSE
            /\ Return("broadcast_disconnected", 0)
         \/ /\ in = "read_telemetry"
            /\ connected' = connected
            /\ \E data \in BOOLEAN, session_active \in BOOLEAN,
                  due \in BOOLEAN :
                 Return(IF ~data THEN "sleep_poll"
                        ELSE IF session_active THEN "detect_events"
                        ELSE AfterEvents(due), 0)
         \/ /\ in = "detect_events"
            /\ connected' = connected
            /\ \E n \in 0..MaxLoopEvents, due \in BOOLEAN :
                 Return(IF n > 0 THEN "broadcast_event" ELSE AfterEvents(due),
                        n)
         \/ /\ pc = "sleep_reconnect"
            /\ Await(t, "top", 0)
         \/ /\ pc = "broadcast_disconnected"
            /\ Await(t, "sleep_reconnect", 0)
         \/ /\ pc = "broadcast_event"
            /\ \E due \in BOOLEAN :
                 Await(t, IF loops.events > 1 THEN "broadcast_event"
                          ELSE AfterEvents(due), loops.events - 1)
         \/ /\ pc = "broadcast_snapshot"
            /\ Await(t, "sleep_poll", 0)
         \/ /\ pc = "sleep_poll"
            /\ Await(t, "top", 0)
  /\ UNCHANGED <<clients, broadcast, sockets, running, emitted, Telemetry,
                 tick, lap_storage, prev_lap_for_capture,
                 last_lap_capture_time, now, uuid_next, call>>

\* lap_capture_loop, one statement at a time, while the event loop runs it
lap_capture_loop ==
  /\ loops.current = "lap_capture_loop"
  /\ LET t  == "lap_capture_loop"
         pc == loops.pc[t]
         in == loops.inside[t]
     IN  \/ /\ pc = "top"
            /\ loops' = [loops EXCEPT !.pc[t] =
                          IF ~connected \/ ~loops.is_connected
                          THEN "sleep_idle"
                          ELSE "capture_lap_telemetry"]
            /\ connected' = connected
         \/ EnterCall(t)
         \/ /\ in = "capture_lap_telemetry"
            /\ connected' = connected
            /\ \E completed_lap \in BOOLEAN :
                 loops' = [loops EXCEPT
                             !.inside[t] = "none",
                             !.pc[t] = IF completed_lap
                                       THEN "broadcast_lap_recorded"
                                       ELSE "sleep_capture"]
         \/ /\ pc = "sleep_idle"
            /\ Await(t, "top", loops.events)
         \/ /\ pc = "broadcast_lap_recorded"
            /\ Await(t, "broadcast_lap_data", loops.events)
         \/ /\ pc = "broadcast_lap_data"
            /\ Await(t, "sleep_capture", loops.events)
         \/ /\ pc = "sleep_capture"
            /\ Await(t, "top", loops.events)
  /\ UNCHANGED <<clients, broadcast, sockets, running, emitted, Telemetry,
                 tick, lap_storage, prev_lap_for_capture,
                 last_lap_capture_time, now, uuid_next, call>>

\* one iteration of telemetry_loop over the event detector's frames
ReadTelemetryEvents ==
  /\ running
  /\ connected
  /\ \E f \in EventFrames : TelemetryIteration(f, now)

\* OpponentSectorTracker.update called with the arrays of one car
SectorUpdate ==
  /\ \E d \in SectorDistPcts, ts \in SectorTrackSurfaces,
        st \in SectorSessionTimes :
       sector_tracker' = sector_update(sector_tracker, <<d>>, <<ts>>, st)
  /\ call' = Call("sector_update", NoLap, {})
  /\ UNCHANGED <<Server, running, emitted, spotter, tracking, tick,
                 lap_storage, Service, now, uuid_next>>

\* OpponentSectorTracker.reset
SectorReset ==
  /\ sector_tracker' = sector_reset(sector_tracker)
  /\ call' = Call("sector_reset", NoLap, {})
  /\ UNCHANGED <<Server, running, emitted, spotter, tracking, tick,
                 lap_storage, Service, now, uuid_next>>

\* one iteration of telemetry_loop over the spotter's frames, after the sleep
\* that follows the previous one
ReadTelemetrySpotter ==
  /\ running
  /\ connected
  /\ \E f \in SpotterFrames, dt \in SpotterSteps :
       /\ now + dt <= MaxSpotterClock
       /\ TelemetryIteration(f, now + dt)

\* one iteration of lap_capture_loop: the loop calls capture_lap_telemetry
\* only while telemetry.connected and the simulator is up
CaptureLapTelemetry ==
  /\ uuid_next <= MaxUuid
  /\ connected
  /\ \E f \in Frames :
     \E r \in {capture_lap_telemetry(lap_storage, connected,
                                     prev_lap_for_capture,
                                     last_lap_capture_time, f, uuid_next, now)} :
           /\ Len(r.self.current_lap_points) <= MaxPoints
           /\ lap_storage' = r.self
           /\ prev_lap_for_capture' = r.prev
           /\ last_lap_capture_time' = r.last
           /\ call' = Call("capture_lap_telemetry", r.ret, Evicted(lap_storage, r.self, r.ret))
           /\ uuid_next' = IF r.ret.id # NoneId THEN uuid_next + 1 ELSE uuid_next
  /\ UNCHANGED <<Server, running, emitted, Telemetry, tick, connected, now>>

\* time passes between two ticks of the capture loop (resolver runs)
AdvanceResolverClock ==
  /\ \E dt \in ClockSteps : now + dt <= MaxResolverClock /\ now' = now + dt
  /\ UNCHANGED <<Server, running, emitted, Telemetry, tick, lap_storage, Service, uuid_next, call>>

\* time passes between two ticks of the capture loop, laps shorter than 10 s
AdvancePendingClock ==
  /\ \E dt \in PendingClockSteps :
       now + dt <= MaxPendingClock /\ now' = now + dt
  /\ UNCHANGED <<Server, running, emitted, Telemetry, tick, lap_storage, Service, uuid_next, call>>

\* one iteration of lap_capture_loop on laps longer than the buffer size:
\* the live buffer is followed one point past LAP_POINTS_BUFFER_SIZE
CaptureLapTelemetryBuffer ==
  /\ uuid_next <= MaxResolverLaps
  /\ connected
  /\ \E f \in ResolverFrames :
     \E r \in {capture_lap_telemetry(lap_storage, connected,
                                     prev_lap_for_capture,
                                     last_lap_capture_time, f, uuid_next, now)} :
           /\ Len(r.self.current_lap_points) <= LAP_POINTS_BUFFER_SIZE + 1
           /\ lap_storage' = r.self
           /\ prev_lap_for_capture' = r.prev
           /\ last_lap_capture_time' = r.last
           /\ call' = Call("capture_lap_telemetry", r.ret, Evicted(lap_storage, r.self, r.ret))
           /\ uuid_next' = IF r.ret.id # NoneId THEN uuid_next + 1 ELSE uuid_next
           /\ tick' = Tick(f, now - last_lap_capture_time >= LAP_CAPTURE_INTERVAL,
                           PendingAge(lap_storage, now))
  /\ UNCHANGED <<Server, running, emitted, Telemetry, connected, now>>

\* one iteration of lap_capture_loop over the resolver's frames
CaptureLapTelemetryResolver ==
  /\ uuid_next <= MaxResolverLaps
  /\ connected
  /\ \E f \in ResolverFrames :
     \E r \in {capture_lap_telemetry(lap_storage, connected,
                                     prev_lap_for_capture,
                                     last_lap_capture_time, f, uuid_next, now)} :
           /\ Len(r.self.current_lap_points) <= MaxPoints
           /\ lap_storage' = r.self
           /\ prev_lap_for_capture' = r.prev
           /\ last_lap_capture_time' = r.last
           /\ call' = Call("capture_lap_telemetry", r.ret, Evicted(lap_storage, r.self, r.ret))
           /\ uuid_next' = IF r.ret.id # NoneId THEN uuid_next + 1 ELSE uuid_next
           /\ tick' = Tick(f, now - last_lap_capture_time >= LAP_CAPTURE_INTERVAL,
                           PendingAge(lap_storage, now))
  /\ UNCHANGED <<Server, running, emitted, Telemetry, connected, now>>

Next ==
  \/ Elapse
  \/ StartLap
  \/ AddPoint
  \/ CompleteLap
  \/ SavePendingLap
  \/ DeleteLap
  \/ ResetSession

\* the lap store under direct calls
Spec == Init /\ [][Next]_vars

\* the lap store under direct calls, for every max_laps
SpecLimit == InitLimit /\ [][Next]_vars

\* the service: the 20 Hz loop drives the store through capture_lap_telemetry,
\* a client of the store may delete a lap or reset the session in between
NextService ==
  \/ AdvanceClock
  \/ Connect
  \/ Disconnect
  \/ CaptureLapTelemetry
  \/ DeleteLap
  \/ ResetSession

SpecService == Init /\ [][NextService]_vars

\* the pending-lap resolver: the 20 Hz loop alone, over frames that differ in
\* track and position
NextResolver ==
  \/ AdvanceResolverClock
  \/ Connect
  \/ Disconnect
  \/ CaptureLapTelemetryResolver

SpecResolver == Init /\ [][NextResolver]_vars

\* the resolver while the loop keeps running: once connected the service
\* stays connected, lap_capture_loop calls capture_lap_telemetry on every
\* iteration, and time passes
NextResolverLive ==
  \/ AdvanceResolverClock
  \/ Connect
  \/ CaptureLapTelemetryResolver

SpecResolverLive ==
  /\ Init
  /\ [][NextResolverLive]_vars
  /\ WF_vars(AdvanceResolverClock)
  /\ WF_vars(CaptureLapTelemetryResolver)

\* the live recorder alone: laps are started, points arrive anywhere on the
\* lap, the session is reset
NextRecorder ==
  \/ Elapse
  \/ StartLap
  \/ AddPointAt
  \/ ResetSession

SpecRecorder == Init /\ [][NextRecorder]_vars

\* the 1 Hz loop (telemetry_loop) next to a lap store that is being filled:
\* connect, read_telemetry and detect_events, disconnect
NextTelemetry ==
  \/ ElapseTelemetry
  \/ Connect
  \/ Disconnect
  \/ ReadTelemetry
  \/ StartLap
  \/ AddPoint
  \/ CompleteLap
  \/ ResetSession

SpecTelemetry == Init /\ [][NextTelemetry]_vars

\* the 1 Hz loop alone over frames that differ in the cars alongside
NextSpotter ==
  \/ Connect
  \/ DisconnectSpotter
  \/ ReadTelemetrySpotter

SpecSpotter == Init /\ [][NextSpotter]_vars

\* the 1 Hz loop alone over frames that differ in lap, session and failing
\* reads
NextEvents ==
  \/ Connect
  \/ Disconnect
  \/ ReadTelemetryEvents

SpecEvents == Init /\ [][NextEvents]_vars

\* the websocket server: connections come and go while telemetry_loop
\* broadcasts
NextBroadcast ==
  \/ Register
  \/ CloseSocket
  \/ Unregister
  \/ BroadcastBegin
  \/ BroadcastResume

SpecBroadcast == Init /\ [][NextBroadcast]_vars

\* the websocket server with peers that stop reading; an awaited send that
\* can return does return
NextBroadcastLive ==
  \/ Register
  \/ StallSocket
  \/ CloseSocket
  \/ Unregister
  \/ BroadcastBegin
  \/ BroadcastResume

SpecBroadcastLive ==
  Init /\ [][NextBroadcastLive]_vars /\ WF_vars(BroadcastResume)

\* the two loops on the event loop
NextLoops ==
  \/ SimulatorChange
  \/ ResumeTask
  \/ telemetry_loop
  \/ lap_capture_loop

SpecLoops == Init /\ [][NextLoops]_vars

\* the resolver over laps shorter than the 10 s a pending lap is kept
NextPending ==
  \/ AdvancePendingClock
  \/ Connect
  \/ CaptureLapTelemetryResolver

SpecPending == Init /\ [][NextPending]_vars

\* the 20 Hz loop over laps longer than the buffer size
NextBuffer ==
  \/ AdvanceResolverClock
  \/ Connect
  \/ CaptureLapTelemetryBuffer

SpecBuffer == Init /\ [][NextBuffer]_vars

\* the sector tracker under direct calls
NextSectors ==
  \/ SectorUpdate
  \/ SectorReset

SpecSectors == Init /\ [][NextSectors]_vars

\* ===================================================================== claims
Laps == lap_storage.laps

\* the step stored a lap (it drew a lap id); the lap is call'.ret
StoredLap == uuid_next' # uuid_next

HasLap(self, id) == \E i \in 1..Len(self.laps) : self.laps[i].id = id

\* C1: every stored lap has at least MIN_LAP_POINTS points and a lapTime in
\* [10.0, 1200.0]; complete_lap and save_pending_lap with too few buffered
\* points or a lap_time outside the range return None and add no lap.
C1_StoredLapsValid ==
  /\ \A i \in 1..Len(Laps) :
       /\ Len(Laps[i].points) >= MIN_LAP_POINTS
       /\ Laps[i].lapTime >= MinLapTime
       /\ Laps[i].lapTime <= MaxLapTime
  /\ \A lap_time \in LapTimes \cup FrameLapTimes :
       LET bad == lap_time < MinLapTime \/ lap_time > MaxLapTime
           c == complete_lap(lap_storage, lap_time, "Spa", "GT3", uuid_next, now)
           p == save_pending_lap(lap_storage, lap_time, uuid_next, now)
       IN  /\ (bad \/ Len(lap_storage.current_lap_points) < MIN_LAP_POINTS)
                => (c.ret = NoLap /\ c.self.laps = Laps)
           /\ (bad \/ Len(lap_storage.pending_lap_points) < MIN_LAP_POINTS)
                => (p.ret = NoLap /\ p.self.laps = Laps)

\* a lap is stored and a pending lap has been rejected for its lap time
\* (save_pending_lap drops the points and keeps the names)
C1_Witness ==
  /\ Len(Laps) > 0
  /\ lap_storage.pending_lap_points = <<>>
  /\ lap_storage.pending_lap_track # ""

\* C2: if session_best_id is set it names a stored lap, and no stored lap has
\* a smaller lapTime than that lap.
C2_BestIsStoredAndSmallest ==
  lap_storage.session_best_id # NoneId =>
    \E i \in 1..Len(Laps) :
      /\ Laps[i].id = lap_storage.session_best_id
      /\ \A j \in 1..Len(Laps) : Laps[i].lapTime <= Laps[j].lapTime

\* the session best is the oldest stored lap and a later lap has gone
C2_Witness ==
  /\ Len(Laps) >= 2
  /\ Laps[1].id = lap_storage.session_best_id
  /\ uuid_next > Len(Laps) + 1

\* C3: a non-empty store has exactly one lap flagged isSessionBest, the one
\* session_best_id names; an empty store has none.
C3_ExactlyOneBestFlag ==
  LET flagged == {i \in 1..Len(Laps) : Laps[i].isSessionBest}
  IN  IF Len(Laps) = 0 THEN flagged = {}
      ELSE \E i \in 1..Len(Laps) :
             flagged = {i} /\ Laps[i].id = lap_storage.session_best_id

\* a faster lap has just been stored and the lap before it lost the flag
C3_Witness ==
  /\ Len(Laps) >= 2
  /\ call.ret.id = Laps[Len(Laps)].id
  /\ Laps[Len(Laps)].isSessionBest
  /\ Laps[Len(Laps)].deltaToSessionBest < 0
  /\ ~Laps[1].isSessionBest

\* C4: a call that stores a lap leaves at most max_laps laps, and the lap
\* session_best_id names is among them.
C4_LimitKeepsBest ==
  [][StoredLap =>
       /\ Len(lap_storage'.laps) <= max_laps
       /\ HasLap(lap_storage', lap_storage'.session_best_id)]_vars

\* a tick stored a lap, a lap was evicted for it, the oldest lap is the best
C4_Witness ==
  /\ call.op = "capture_lap_telemetry"
  /\ call.evicted # {}
  /\ Len(Laps) = max_laps
  /\ Laps[1].id = lap_storage.session_best_id

\* C5 as stated: outside reset_session the session best time never increases,
\* and after a lap is stored it equals the lapTime of the session best lap.
C5_BestTimeEqualsLapTime ==
  [][/\ (call'.op # "reset_session"
           => lap_storage'.session_best_time <= lap_storage.session_best_time)
     /\ (StoredLap =>
           \E i \in 1..Len(lap_storage'.laps) :
             /\ lap_storage'.laps[i].id = lap_storage'.session_best_id
             /\ lap_storage'.laps[i].lapTime = lap_storage'.session_best_time)]_vars

\* C5 amended: outside reset_session the session best time never increases,
\* and after a lap is stored the lapTime of the session best lap is the
\* session best time rounded to 3 decimals.
C5_BestTimeRoundsToLapTime ==
  [][/\ (call'.op # "reset_session"
           => lap_storage'.session_best_time <= lap_storage.session_best_time)
     /\ (StoredLap =>
           \E i \in 1..Len(lap_storage'.laps) :
             /\ lap_storage'.laps[i].id = lap_storage'.session_best_id
             /\ lap_storage'.laps[i].lapTime
                  = Round3(lap_storage'.session_best_time))]_vars

\* the lap just stored is the session best and its time was rounded
C5_Witness ==
  /\ call.ret.id # NoneId
  /\ call.ret.id = lap_storage.session_best_id
  /\ call.ret.lapTime # lap_storage.session_best_time

\* C6: when a stored lap takes the count past max_laps, the laps removed are
\* not the session best and none of the remaining laps that are not the
\* session best is older (by completedAt); just enough laps are removed.
C6_EvictsOldestNonBest ==
  [][StoredLap =>
       LET all  == Append(lap_storage.laps, call'.ret)
           best == lap_storage'.session_best_id
           gone == {i \in 1..Len(all) : ~HasLap(lap_storage', all[i].id)}
           kept == (1..Len(all)) \ gone
       IN  /\ Cardinality(gone) =
                IF Len(all) > max_laps THEN Len(all) - max_laps ELSE 0
           /\ \A g \in gone :
                /\ all[g].id # best
                /\ \A k \in kept :
                     all[k].id # best => all[g].completedAt <= all[k].completedAt]_vars

\* laps A, B, C stored in that order with B the best: A is gone, B and C stay
C6_Witness ==
  /\ call.op = "complete_lap"
  /\ call.evicted = {1}
  /\ lap_storage.session_best_id = 2
  /\ HasLap(lap_storage, 2)
  /\ HasLap(lap_storage, call.ret.id)
  /\ call.ret.lapTime > Laps[1].lapTime

C8_FirstLapIsBest ==
  [][(StoredLap /\ Len(lap_storage.laps) = 0)
     => /\ call'.ret.isSessionBest
        /\ call'.ret.deltaToSessionBest = 0
        /\ lap_storage'.session_best_id = call'.ret.id]_vars

\* the first lap after a reset_session: earlier ids exist, the store holds
\* only the lap just returned
C8_Witness ==
  /\ call.op = "complete_lap"
  /\ call.ret.id > 1
  /\ Laps = <<call.ret>>

\* C9: a complete_lap that returns None leaves the laps and the session best
\* alone and leaves the recorder inactive with an empty buffer.
C9_FailedCompleteDiscardsBuffer ==
  [][(call'.op = "complete_lap" /\ call'.ret = NoLap /\ now' = now)
     => /\ lap_storage'.laps = lap_storage.laps
        /\ lap_storage'.session_best_id = lap_storage.session_best_id
        /\ lap_storage'.session_best_time = lap_storage.session_best_time
        /\ ~lap_storage'.recording_active
        /\ lap_storage'.current_lap_points = <<>>]_vars

\* C10: a tick that sees the lap counter above a positive previous value, with
\* LapLastLapTime <= 0 and at least MIN_LAP_POINTS points in the live buffer,
\* makes the buffer, the previous lap number, the frame's track and car names
\* and the current time the pending lap.
C10_BoundaryWithoutTimeMakesPending ==
  (connected /\ now - last_lap_capture_time >= LAP_CAPTURE_INTERVAL) =>
    \A f \in Frames :
      (/\ f.is_connected
       /\ f.Lap > prev_lap_for_capture /\ prev_lap_for_capture > 0
       /\ f.LapLastLapTime <= 0
       /\ Len(lap_storage.current_lap_points) >= MIN_LAP_POINTS)
      => LET r == capture_lap_telemetry(lap_storage, connected,
                                        prev_lap_for_capture,
                                        last_lap_capture_time, f, uuid_next, now)
         IN  /\ r.self.pending_lap_points = lap_storage.current_lap_points
             /\ r.self.pending_lap_number = prev_lap_for_capture
             /\ r.self.pending_lap_track = f.TrackDisplayName
             /\ r.self.pending_lap_car = f.CarScreenName
             /\ r.self.pending_lap_created_at = now

\* a capture tick of the resolver that passed the time check
ResolverTick == call'.op = "capture_lap_telemetry" /\ now' = now /\ tick'.ran

\* the step stored the pending lap it found: same points, lap number, track
\* and car; the pending lap is gone and the live buffer is as it was
ResolvedPending ==
  /\ StoredLap
  /\ HasLap(lap_storage', call'.ret.id)
  /\ call'.ret.points = lap_storage.pending_lap_points
  /\ call'.ret.lapNumber = lap_storage.pending_lap_number
  /\ call'.ret.trackName = lap_storage.pending_lap_track
  /\ call'.ret.carName = lap_storage.pending_lap_car
  /\ lap_storage'.pending_lap_points = <<>>
  /\ lap_storage'.pending_lap_number = 0
  /\ lap_storage'.pending_lap_track = ""
  /\ lap_storage'.pending_lap_car = ""
  /\ lap_storage'.current_lap_points = lap_storage.current_lap_points
  /\ lap_storage'.current_lap_number = lap_storage.current_lap_number

\* C11 as stated: a tick that finds a pending lap younger than 10.0 s and
\* reads LapLastLapTime > 0 stores a lap with the pending lap's points, lap
\* number, track and car, and clears the pending lap.
C11_PositiveTimeResolvesPending ==
  [][(/\ ResolverTick
      /\ tick'.age >= 0 /\ tick'.age < PendingTimeout
      /\ tick'.LapLastLapTime > 0)
     => ResolvedPending]_vars

\* C11 amended: a tick that finds a pending lap no older than 10.0 s stores
\* that lap when it reads a LapLastLapTime within [10.0, 1200.0]; when the
\* time is positive but outside the range the tick stores no lap and drops
\* the pending points.
C11_ValidTimeResolvesPending ==
  [][(/\ ResolverTick
      /\ tick'.age >= 0 /\ tick'.age <= PendingTimeout
      /\ tick'.LapLastLapTime > 0)
     => IF InvalidLapTime(tick'.LapLastLapTime)
        THEN /\ lap_storage'.laps = lap_storage.laps
             /\ lap_storage'.pending_lap_points = <<>>
        ELSE ResolvedPending]_vars

\* a pending lap was resolved while the live recorder already held a point of
\* the next lap, at another position
C11_Witness ==
  /\ call.op = "capture_lap_telemetry"
  /\ tick.ran /\ tick.age >= 0 /\ tick.age <= PendingTimeout
  /\ tick.LapLastLapTime >= MinLapTime
  /\ call.ret.id # NoneId
  /\ Len(call.ret.points) > MIN_LAP_POINTS
  /\ Len(lap_storage.current_lap_points) > 0
  /\ lap_storage.current_lap_points[1] # call.ret.points[1]
  /\ call.ret.lapNumber < lap_storage.current_lap_number

\* no pending lap: points, lap number, names and creation time are reset
NoPending(self) ==
  /\ self.pending_lap_points = <<>>
  /\ self.pending_lap_number = 0
  /\ self.pending_lap_track = ""
  /\ self.pending_lap_car = ""
  /\ self.pending_lap_created_at = 0

\* C12: a tick that finds a pending lap older than 10.0 s clears it (points,
\* lap number, names, creation time) and does not store it: a lap the same
\* tick stores is the live recorder's lap, and a pending lap it leaves behind
\* is a new one, made by this tick from the live buffer.
C12_StalePendingCleared ==
  [][(ResolverTick /\ tick'.age > PendingTimeout)
     => /\ StoredLap =>
             /\ call'.ret.points = lap_storage.current_lap_points
             /\ call'.ret.lapNumber = lap_storage.current_lap_number
        /\ \/ NoPending(lap_storage')
           \/ /\ lap_storage'.pending_lap_created_at = now
              /\ lap_storage'.pending_lap_points = lap_storage.current_lap_points
              /\ lap_storage'.pending_lap_number = prev_lap_for_capture]_vars

\* a tick found a pending lap 15 s old, read a valid lap time, and there is
\* neither a pending lap nor a stored lap afterwards
C12_Witness ==
  /\ call.op = "capture_lap_telemetry"
  /\ tick.ran /\ tick.age > PendingTimeout
  /\ tick.LapLastLapTime >= MinLapTime
  /\ NoPending(lap_storage)
  /\ call.ret = NoLap
  /\ Laps = <<>>

\* a pending lap is held, created early enough for the explored clock to pass
\* its timeout
HoldsPending ==
  /\ Len(lap_storage.pending_lap_points) > 0
  /\ \E dt \in ClockSteps :
       lap_storage.pending_lap_created_at + PendingTimeout + dt <= MaxResolverClock

\* C13: while ticks keep running a pending lap is eventually removed (a
\* pending lap made too late for the explored clock to pass its timeout is
\* left out); and no pending lap is held once a tick has run more than 10.0 s
\* after its creation.
C13_PendingEventuallyRemoved ==
  /\ HoldsPending ~> ~HoldsPending
  /\ [](Len(lap_storage.pending_lap_points) > 0
          => last_lap_capture_time - lap_storage.pending_lap_created_at
               <= PendingTimeout)

\* a pending lap that never got a lap time was discarded by the first tick
\* that ran more than 10.0 s after its creation
C13_Witness ==
  /\ call.op = "capture_lap_telemetry"
  /\ tick.ran /\ tick.age > PendingTimeout
  /\ tick.LapLastLapTime = 0
  /\ Len(lap_storage.pending_lap_points) = 0
  /\ last_lap_capture_time = now

\* the five fields of the pending lap
Pending(self) ==
  <<self.pending_lap_points, self.pending_lap_number, self.pending_lap_track,
    self.pending_lap_car, self.pending_lap_created_at>>

\* C14: when a pending lap is held at the moment a new lap boundary is
\* detected (the tick found it no older than 10.0 s), LapLastLapTime <= 0 and
\* the live buffer has fewer than MIN_LAP_POINTS points, the pending lap
\* (points, lap number, names, creation time) is unchanged, the live buffer's
\* points are dropped and no lap is stored.
C14_ShortBoundaryKeepsPending ==
  [][(/\ ResolverTick
      /\ tick'.age >= 0 /\ tick'.age <= PendingTimeout
      /\ tick'.LapLastLapTime <= 0
      /\ LapChanged(tick'.Lap, prev_lap_for_capture)
      /\ TooFewPoints(lap_storage.current_lap_points))
     => /\ Pending(lap_storage') = Pending(lap_storage)
        /\ lap_storage'.current_lap_points = <<>>
        /\ lap_storage'.current_lap_number = tick'.Lap
        /\ lap_storage'.laps = lap_storage.laps
        /\ ~StoredLap]_vars

\* a second boundary without a lap time was passed while the pending lap of
\* an earlier lap was held: the recorder is two laps past the pending lap
C14_Witness ==
  /\ call.op = "capture_lap_telemetry"
  /\ tick.ran /\ tick.age >= 0 /\ tick.age <= PendingTimeout
  /\ tick.LapLastLapTime = 0
  /\ Len(lap_storage.pending_lap_points) > 0
  /\ lap_storage.pending_lap_created_at < now
  /\ prev_lap_for_capture = tick.Lap
  /\ lap_storage.current_lap_number = tick.Lap
  /\ lap_storage.current_lap_number >= lap_storage.pending_lap_number + 2
  /\ lap_storage.current_lap_points = <<>>

\* C15: a tick that sees the lap counter above a positive previous value
\* ends with the recorder active on the new lap number with an empty buffer,
\* whatever the pending lap and whatever became of the previous lap.
C15_BoundaryStartsNewLap ==
  [][(ResolverTick /\ LapChanged(tick'.Lap, prev_lap_for_capture))
     => /\ lap_storage'.recording_active
        /\ lap_storage'.current_lap_number = tick'.Lap
        /\ lap_storage'.current_lap_points = <<>>]_vars

\* C16: a disconnect leaves the stored laps, session_best_id and
\* session_best_time as they were, puts the spotter back to clear, empties the
\* sector tracker's car states and resets the previous-frame and session
\* tracking values; a non-empty store becomes empty only by reset_session.
C16_DisconnectKeepsLaps ==
  [][/\ (connected /\ ~connected')
          => /\ lap_storage'.laps = lap_storage.laps
             /\ lap_storage'.session_best_id = lap_storage.session_best_id
             /\ lap_storage'.session_best_time = lap_storage.session_best_time
             /\ spotter'.spotter_state = "clear"
             /\ spotter'.spotter_frames_in_state = 0
             /\ spotter'.spotter_last_call = 0
             /\ DOMAIN sector_tracker'.car_states = {}
             /\ tracking' = Tracking_init
             /\ prev_lap_for_capture' = 0
     /\ (Len(lap_storage.laps) > 0 /\ Len(lap_storage'.laps) = 0)
          => call'.op = "reset_session"]_vars

\* the service has disconnected with laps stored and a session best
C16_Witness ==
  /\ call.op = "disconnect"
  /\ ~connected
  /\ Len(Laps) = max_laps
  /\ HasLap(lap_storage, lap_storage.session_best_id)
  /\ lap_storage.session_best_time < Inf
  /\ spotter = Spotter_init
  /\ sector_tracker = OpponentSectorTracker_init
  /\ tracking = Tracking_init

\* C17: delete_lap(id) returns False and changes nothing when id is the
\* session best or names no stored lap; otherwise it returns True, removes
\* exactly that lap and leaves every other lap, session_best_id,
\* session_best_time and the rest of the store as they were.
C17_DeleteLapSparesBest ==
  \A lap_id \in 0..MaxUuid :
    LET r == delete_lap(lap_storage, lap_id)
    IN  IF lap_id = lap_storage.session_best_id \/ ~HasLap(lap_storage, lap_id)
        THEN r.ret = FALSE /\ r.self = lap_storage
        ELSE /\ r.ret = TRUE
             /\ ~HasLap(r.self, lap_id)
             /\ Len(r.self.laps) = Len(Laps) - 1
             /\ \A i \in 1..Len(Laps) :
                  Laps[i].id # lap_id
                    => \E j \in 1..Len(r.self.laps) : r.self.laps[j] = Laps[i]
             /\ [r.self EXCEPT !.laps = Laps] = lap_storage

\* laps 1 and 2 were stored, lap 1 is the session best and lap 2 has been
\* deleted
C17_Witness ==
  /\ call.op = "delete_lap"
  /\ uuid_next = 3
  /\ Len(Laps) = 1
  /\ Laps[1].id = 1
  /\ lap_storage.session_best_id = 1

\* C18: after reset_session the store has no laps, session_best_id is unset,
\* session_best_time is inf (every valid lap time beats it), the recorder is
\* inactive with an empty buffer, and there is no pending lap.
C18_ResetSessionClearsAll ==
  [][(call'.op = "reset_session" /\ now' = now)
     => /\ lap_storage'.laps = <<>>
        /\ lap_storage'.session_best_id = NoneId
        /\ lap_storage'.session_best_time = Inf
        /\ \A lap_time \in LapTimes \cup FrameLapTimes :
             ~InvalidLapTime(lap_time)
               => IsSessionBest(lap_time, lap_storage'.session_best_time)
        /\ ~lap_storage'.recording_active
        /\ lap_storage'.current_lap_points = <<>>
        /\ NoPending(lap_storage')]_vars

\* the session was reset after laps had been stored and recorded
C18_Witness ==
  /\ call.op = "reset_session"
  /\ uuid_next > max_laps
  /\ lap_storage.current_lap_number > 1
  /\ Laps = <<>>
  /\ ~lap_storage.recording_active
  /\ NoPending(lap_storage)

\* C19: add_point appends the point and sets last_distance_pct to its
\* distancePct exactly when the recorder is active and the point is at or
\* past last_distance_pct or below 0.05; otherwise the store is unchanged.
C19_AddPointMonotoneOrWrap ==
  \A d \in DistancePcts :
    LET r == add_point(lap_storage, TelemetryPoint(d))
    IN  IF /\ lap_storage.recording_active
           /\ (d >= lap_storage.last_distance_pct \/ d < 500)
        THEN /\ r.current_lap_points
                  = Append(lap_storage.current_lap_points, TelemetryPoint(d))
             /\ r.last_distance_pct = d
             /\ [r EXCEPT !.current_lap_points = lap_storage.current_lap_points,
                          !.last_distance_pct = lap_storage.last_distance_pct]
                  = lap_storage
        ELSE r = lap_storage

\* a point at 0.04 was appended after a point at 0.99
C19_Witness ==
  /\ call.op = "add_point"
  /\ lap_storage.recording_active
  /\ Len(lap_storage.current_lap_points) = 2
  /\ lap_storage.current_lap_points[1].distancePct = 9900
  /\ lap_storage.current_lap_points[2].distancePct = 400
  /\ lap_storage.last_distance_pct = 400

\* the store with its live buffer, lap number and the given names moved into
\* the pending lap
AsPending(self, track_name, car_name, t) ==
  MakePending(self, self.current_lap_number, track_name, car_name, t)

\* C20: on the same points, lap time and store contents, save_pending_lap on
\* a pending lap and complete_lap on the live buffer accept or reject alike
\* and return the same lap (isSessionBest, deltaToSessionBest and all), and
\* leave the same laps (same eviction), session_best_id and
\* session_best_time.
C20_SavePendingLikeCompleteLap ==
  \A lap_time \in LapTimes, track \in TrackNames, car \in CarNames :
    LET c == complete_lap(lap_storage, lap_time, track, car, uuid_next, now)
        p == save_pending_lap(AsPending(lap_storage, track, car, now),
                              lap_time, uuid_next, now)
    IN  /\ c.ret = p.ret
        /\ c.self.laps = p.self.laps
        /\ c.self.session_best_id = p.self.session_best_id
        /\ c.self.session_best_time = p.self.session_best_time

\* a full store and a live buffer long enough: a lap time of 94.010 s makes
\* either call store a new session best and evict a lap
C20_Witness ==
  /\ lap_storage.recording_active
  /\ Len(lap_storage.current_lap_points) >= MIN_LAP_POINTS
  /\ Len(Laps) = max_laps
  /\ LET p == save_pending_lap(AsPending(lap_storage, "Spa", "GT3", now),
                               940100, uuid_next, now)
     IN  /\ p.ret.isSessionBest
         /\ p.ret.deltaToSessionBest < 0
         /\ Len(p.self.laps) = max_laps
         /\ HasLap(p.self, p.ret.id)

\* an iteration of telemetry_loop has run (in the specifications in which
\* nothing else happens while read_telemetry is the last call)
TelemetryTick == call'.op = "read_telemetry"

\* the conditions under which detect_events evaluates the spotter on frame f
SpotterEvaluated(f) ==
  /\ is_session_active(f) /\ ~f.OnPitRoad /\ ~f.InGarage
  /\ f.SessionType \notin QualifyTypes
  /\ f.num_cars > 1 /\ f.raises # "DriverInfo"

\* the proximity state evaluated on frame f
EvaluatedState(f) == SpotterNewState(detect_proximity(f.CarLeftRight))

\* C21: on a tick that evaluates the spotter, finds clear and had a threat
\* state stored, the list of events holds the spotter call clear_left,
\* clear_right or clear_all_around that belongs to the state left, however
\* short the time since the previous emission.
C21_ClearEmittedAtOnce ==
  [][(/\ TelemetryTick
      /\ SpotterEvaluated(emitted'.frame)
      /\ spotter.spotter_state \in ThreatStates
      /\ EvaluatedState(emitted'.frame) = "clear")
     => SpotterCalls(emitted'.events) =
          {[type |-> "spotter", variant |-> 0,
            call |-> CASE spotter.spotter_state = "car_left" -> "clear_left"
                       [] spotter.spotter_state = "car_right" -> "clear_right"
                       [] OTHER -> "clear_all_around"]}]_vars

\* C22: on a tick that evaluates the spotter and finds a threat state other
\* than the stored one, the stored state becomes the new state; a spotter
\* event, if any, is the call of the new state and is emitted only if at least
\* 1.0 s has passed since spotter_last_call; with less than 1.0 s no spotter
\* event is emitted and spotter_last_call is unchanged.
C22_ThreatCallRespectsCooldown ==
  [][(/\ TelemetryTick
      /\ SpotterEvaluated(emitted'.frame)
      /\ EvaluatedState(emitted'.frame) \in ThreatStates
      /\ EvaluatedState(emitted'.frame) # spotter.spotter_state)
     => /\ spotter'.spotter_state = EvaluatedState(emitted'.frame)
        /\ SpotterCalls(emitted'.events) \subseteq
              {[type |-> "spotter", variant |-> 0,
                call |-> EvaluatedState(emitted'.frame)]}
        /\ SpotterCalls(emitted'.events) # {}
              => now' - spotter.spotter_last_call >= spotter_cooldown
        /\ now' - spotter.spotter_last_call < spotter_cooldown
              => /\ SpotterCalls(emitted'.events) = {}
                 /\ spotter'.spotter_last_call = spotter.spotter_last_call]_vars

\* a change into a threat state was evaluated less than 1.0 s after the last
\* call: nothing was emitted, the state is stored, the time stamp is kept
C22_Witness ==
  /\ call.op = "read_telemetry"
  /\ SpotterEvaluated(emitted.frame)
  /\ EvaluatedState(emitted.frame) \in ThreatStates
  /\ emitted.before.spotter_state \in ThreatStates
  /\ emitted.before.spotter_state # EvaluatedState(emitted.frame)
  /\ emitted.before.spotter_last_call > 0
  /\ now - emitted.before.spotter_last_call < spotter_cooldown
  /\ SpotterCalls(emitted.events) = {}
  /\ spotter.spotter_state = EvaluatedState(emitted.frame)
  /\ spotter.spotter_last_call = emitted.before.spotter_last_call

\* C23: a reminder is emitted only on a tick that leaves the stored state
\* unchanged, in a threat state, at least 2.0 s after spotter_last_call, and it
\* is the still call of that state; no reminder is emitted when the state is
\* clear; every tick that emits a spotter event sets spotter_last_call to the
\* current time.
C23_ReminderOnlyAfterStillInterval ==
  [][TelemetryTick
     => /\ \A e \in Reminders(emitted'.events) :
              /\ spotter'.spotter_state = spotter.spotter_state
              /\ spotter.spotter_state \in ThreatStates
              /\ now' - spotter.spotter_last_call >= spotter_still_interval
              /\ e.call = CASE spotter.spotter_state = "car_left" -> "still_left"
                            [] spotter.spotter_state = "car_right" -> "still_right"
                            [] OTHER -> "still_three_wide"
        /\ spotter'.spotter_state = "clear" => Reminders(emitted'.events) = {}
        /\ SpotterCalls(emitted'.events) # {}
              => spotter'.spotter_last_call = now']_vars

\* a reminder was emitted 2.0 s or more after the last call
C23_Witness ==
  /\ call.op = "read_telemetry"
  /\ Reminders(emitted.events) # {}
  /\ spotter.spotter_state \in ThreatStates
  /\ emitted.before.spotter_state = spotter.spotter_state
  /\ emitted.before.spotter_last_call > 0
  /\ now - emitted.before.spotter_last_call >= spotter_still_interval
  /\ spotter.spotter_last_call = now

\* C24: the k-th reminder emitted since the stored state last changed
\* (k = 1, 2, ...) has variant ((k - 1) mod 3) + 1: 1, 2, 3, 1, 2, 3, ...,
\* starting again at 1 after every change of state.
C24_ReminderVariantsRotate ==
  [][TelemetryTick
     => \A e \in Reminders(emitted'.events) :
           e.variant = (emitted.reminders % 3) + 1]_vars

\* the fourth reminder in the same state was emitted, with variant 1 again
C24_Witness ==
  /\ call.op = "read_telemetry"
  /\ emitted.reminders = 4
  /\ \E e \in Reminders(emitted.events) : e.variant = 1

SectorKeys == {"s1", "s2", "s3"}

\* the cars the sector tracker has a state for
TrackedCars == DOMAIN sector_tracker.car_states

\* the state of car c after update is called with its distance d, track
\* surface ts and the session time st
AfterSectorUpdate(c, d, ts, st) ==
  sector_update(sector_tracker, [i \in 1..c |-> d], [i \in 1..c |-> ts],
                st).car_states[c]

\* C25 as stated: every recorded sector time is strictly between 0 and 300 s.
C25_SectorTimesInsideWindow ==
  \A c \in TrackedCars : \A k \in SectorKeys :
     LET v == sector_tracker.car_states[c].sector_times[k]
     IN  v # NoTime => (0 < v /\ v < MaxSectorTime)

\* C25: every recorded sector time is between 0 and 300 s, the bounds
\* included; update changes a sector time only to the elapsed time since
\* sector_start_time rounded to 3 decimals, that elapsed time being strictly
\* between 0 and 300 s; a sector change whose elapsed time is outside that
\* window leaves all three sector times as they were.
C25_SectorTimesRoundedFromWindow ==
  /\ \A c \in TrackedCars : \A k \in SectorKeys :
        LET v == sector_tracker.car_states[c].sector_times[k]
        IN  v # NoTime => (0 <= v /\ v <= MaxSectorTime)
  /\ \A c \in TrackedCars :
     \A d \in SectorDistPcts, ts \in SectorTrackSurfaces,
        st \in SectorSessionTimes :
        LET old     == sector_tracker.car_states[c]
            new     == AfterSectorUpdate(c, d, ts, st)
            elapsed == st - old.sector_start_time
        IN  /\ \A k \in SectorKeys :
                 new.sector_times[k] # old.sector_times[k]
                   => /\ 0 < elapsed /\ elapsed < MaxSectorTime
                      /\ new.sector_times[k] = Round3(elapsed)
            /\ (elapsed <= 0 \/ elapsed >= MaxSectorTime)
                 => new.sector_times = old.sector_times

\* a car has 300.0 s recorded for a sector it left after 299.9996 s, and
\* 0.0 s for one it left after 0.0004 s
C25_Witness ==
  /\ call.op = "sector_update"
  /\ \E c \in TrackedCars :
        LET times == sector_tracker.car_states[c].sector_times
        IN  /\ \E k \in SectorKeys : times[k] = MaxSectorTime
            /\ \E k \in SectorKeys : times[k] = 0

\* the sector changes that close no sector: 1 -> 3, 2 -> 1 and 3 -> 2
SkippingChanges == {<<1, 3>>, <<2, 1>>, <<3, 2>>}

\* C26: when update sees a tracked car in a sector that is neither the one
\* after its last sector nor sector 1 after sector 3, the car's three sector
\* times are left as they were and last_sector becomes the sector seen.
C26_SkippingChangeRecordsNothing ==
  \A c \in TrackedCars :
  \A d \in {x \in SectorDistPcts : x >= 0}, ts \in {x \in SectorTrackSurfaces : x >= 0},
     st \in SectorSessionTimes :
     LET old == sector_tracker.car_states[c]
         new == AfterSectorUpdate(c, d, ts, st)
         current_sector == IF d < 3300 THEN 1 ELSE IF d < 6600 THEN 2 ELSE 3
     IN  <<old.last_sector, current_sector>> \in SkippingChanges
           => /\ new.sector_times = old.sector_times
              /\ new.last_sector = current_sector

\* a car that has sector times recorded is in sector 1 and can be seen next
\* in sector 3, within the window of a valid sector time
C26_Witness ==
  /\ call.op = "sector_update"
  /\ \E c \in TrackedCars :
        LET state == sector_tracker.car_states[c]
        IN  /\ state.last_sector = 1
            /\ state.sector_times.s3 > 0
            /\ \E st \in SectorSessionTimes :
                  /\ 0 < st - state.sector_start_time
                  /\ st - state.sector_start_time < MaxSectorTime
                  /\ 9000 \in SectorDistPcts
                  /\ AfterSectorUpdate(c, 9000, 3, st).last_sector = 3
                  /\ AfterSectorUpdate(c, 9000, 3, st).sector_times
                       = state.sector_times

\* C27: a tick of the 1 Hz loop emits lap_complete exactly when the session is
\* active and the frame's lap counter is greater than the lap counter the
\* previous tick read, that one being greater than 0 (ticks on which no read
\* raises).
C27_LapCompleteOnLapIncrease ==
  [][(TelemetryTick /\ emitted'.frame.raises = "none")
     => ("lap_complete" \in EventTypes(emitted'.events)
           <=> /\ emitted'.evaluated
               /\ emitted'.frame.Lap > tracking.prev_lap
               /\ tracking.prev_lap > 0)]_vars

\* C28: between two disconnects a tick that evaluates the events emits
\* session_joined exactly when no session_joined has been emitted yet for the
\* frame's session number: on the first evaluated frame, once for every new
\* session number, and not again when an earlier number returns (ticks on
\* which no read raises).
C28_SessionJoinedOncePerSession ==
  [][(TelemetryTick /\ emitted'.evaluated /\ emitted'.frame.raises = "none")
     => ("session_joined" \in EventTypes(emitted'.events)
           <=> emitted'.frame.SessionNum \notin emitted.joined)]_vars

\* the rule of detect_events a failing read belongs to
RuleOf(raises) ==
  IF raises = "WeekendInfo" THEN "session_joined" ELSE "spotter"

\* the events of the sequence that are not of the given type
WithoutType(events, type) ==
  SelectSeq(events, LAMBDA e : e.type # type)

\* C29: on a tick that evaluates the events while a read of one rule raises,
\* detect_events still returns its list, which holds no event of that rule
\* and for every other rule what it holds when no read raises, and
\* telemetry_loop goes on running.
C29_FailingReadSkipsOneRule ==
  [][(TelemetryTick /\ emitted'.evaluated /\ emitted'.frame.raises # "none")
     => LET f    == emitted'.frame
            r    == read_telemetry(tracking, sector_tracker, f, now)
            good == detect_events(r.tracking, spotter,
                                  [f EXCEPT !.raises = "none"], now)
        IN  /\ ~emitted'.raised
            /\ running'
            /\ RuleOf(f.raises) \notin EventTypes(emitted'.events)
            /\ emitted'.events = WithoutType(good.events, RuleOf(f.raises))]_vars

\* C30: when an activation of broadcast in which a send failed is over, the
\* clients whose send failed are no longer in self.clients, every other
\* client that was registered at its start and still is has been sent the
\* message, and no exception has left broadcast, so that the calling loop
\* goes on.
C30_FailedSendDropsOnlySubscriber ==
  [][(/\ broadcast.active /\ ~broadcast'.active
      /\ broadcast'.dead_clients # {})
     => /\ ~broadcast'.raised
        /\ running'
        /\ broadcast'.dead_clients \cap clients' = {}
        /\ (broadcast'.initial \cap clients') \subseteq broadcast'.delivered]_vars

\* C31: a client that is registered and open while a message is being
\* broadcast is eventually sent that message, unless it closes, stalls or
\* is unregistered first or an exception leaves broadcast; a stalled send to
\* another client does not hold the message back for ever.
C31_StalledSendDoesNotStall ==
  \A c \in Websockets :
    (broadcast.active /\ c \in clients /\ sockets[c] = "open")
      ~> \/ c \in broadcast.delivered
         \/ c \notin clients
         \/ sockets[c] # "open"
         \/ broadcast.raised

\* C32: while one of the two loops is inside read_telemetry, detect_events,
\* capture_lap_telemetry, connect or disconnect, it is the coroutine the
\* event loop is running and the other loop is not inside such a call: no
\* step of the other loop falls between the beginning and the end of a call.
C32_ServiceCallsNeverInterleave ==
  \A t \in Tasks :
    loops.inside[t] # "none"
      => /\ loops.current = t
         /\ \A u \in Tasks \ {t} : loops.inside[u] = "none"

\* telemetry_loop is inside detect_events while lap_capture_loop is
\* suspended in the middle of its iteration, between its two broadcasts
C32_Witness ==
  /\ loops.inside["telemetry_loop"] = "detect_events"
  /\ loops.pc["lap_capture_loop"] = "broadcast_lap_data"
  /\ loops.inside["lap_capture_loop"] = "none"

\* C33: a step that finds a pending lap and leaves the pending lap's fields
\* changed is a capture tick that found it older than 10.0 s or read
\* LapLastLapTime > 0 (save_pending_lap), or a call of reset_session; a lap
\* boundary alone never replaces or discards it.
C33_PendingRemovedOnlyByResolution ==
  [][(/\ Len(lap_storage.pending_lap_points) > 0
      /\ Pending(lap_storage') # Pending(lap_storage))
     => \/ /\ ResolverTick
           /\ \/ tick'.age > PendingTimeout
              \/ tick'.LapLastLapTime > 0
        \/ call'.op = "reset_session"]_vars

\* C34: every point of a stored lap was captured while the lap counter
\* equalled the lap's lapNumber: it has the position the frames give to that
\* lap number.
C34_StoredPointsBelongToLap ==
  \A i \in 1..Len(lap_storage.laps) :
    \A j \in 1..Len(lap_storage.laps[i].points) :
      lap_storage.laps[i].points[j].distancePct
        = Round4(ResolverDistPct(lap_storage.laps[i].lapNumber))

\* C35: whatever registers or unregisters while a send is awaited, an
\* activation of broadcast ends without an exception, and every client that
\* was registered from its start to its end has had the message sent to it
\* (or its own send has failed).
C35_RegistrationDuringSendIsHarmless ==
  [][(broadcast.active /\ ~broadcast'.active)
     => /\ ~broadcast'.raised
        /\ (broadcast'.initial \cap clients')
             \subseteq (broadcast'.delivered \cup broadcast'.dead_clients)]_vars

\* C36 as stated: the lap a call of complete_lap or save_pending_lap returns
\* is in the store when the call returns, whatever max_laps >= 1 the store
\* was constructed with.
C36_ReturnedLapIsStored ==
  [][StoredLap => HasLap(lap_storage', call'.ret.id)]_vars

\* C36: the lap a call of complete_lap or save_pending_lap returns is in the
\* store when the call returns if max_laps >= 2 or the lap is the session
\* best; with max_laps = 1 a returned lap that is not the session best is
\* the one lap eviction can remove, and it is not in the store.
C36_ReturnedLapIsStoredUnlessSoleNonBest ==
  [][StoredLap =>
       IF lap_storage.max_laps >= 2 \/ call'.ret.isSessionBest
       THEN HasLap(lap_storage', call'.ret.id)
       ELSE /\ ~HasLap(lap_storage', call'.ret.id)
            /\ call'.evicted = {call'.ret.id}
            /\ lap_storage'.laps = lap_storage.laps]_vars

\* a store constructed with max_laps = 1 has just stored a new session best:
\* the previous best was evicted for it and the returned lap is the one kept
C36_Witness ==
  /\ call.op \in {"complete_lap", "save_pending_lap"}
  /\ call.ret.id # NoneId
  /\ lap_storage.max_laps = 1
  /\ call.evicted # {}
  /\ call.ret.id \notin call.evicted
  /\ HasLap(lap_storage, call.ret.id)
  /\ Len(lap_storage.laps) = 1

\* the sector that follows sector k
FollowingSector(k) == IF k = 3 THEN 1 ELSE k + 1

\* C37 as stated: when a tracked car is first seen in sector K at session
\* time t1, through whatever change of sector, and next seen in the following
\* sector at t2, the sector time sK is afterwards either what it was or
\* t2 - t1 (rounded to 3 decimals).
C37_SectorTimeIsTimeInSector ==
  \A c \in TrackedCars :
  \A d1 \in {x \in SectorDistPcts : x >= 0},
     d2 \in {x \in SectorDistPcts : x >= 0},
     t1 \in SectorSessionTimes, t2 \in SectorSessionTimes :
     LET old == sector_tracker.car_states[c]
         mid == UpdateCarState(old, d1, t1)
         new == UpdateCarState(mid, d2, t2)
         k   == SectorKey(mid.last_sector)
     IN  (/\ mid.last_sector # old.last_sector
          /\ new.last_sector = FollowingSector(mid.last_sector))
           => new.sector_times[k] \in {mid.sector_times[k], Round3(t2 - t1)}

\* C37: when a tracked car is first seen in sector K at session time t1 and
\* next seen in the following sector at t2, the elapsed time that is recorded
\* as sK (rounded, if it is inside the window; else sK stays) is t2 - t1 if
\* the car came into K from the sector before it, and t2 - sector_start_time
\* as it was before if it came into K through an ignored change.
C37_SectorTimeIsTimeSinceLastClose ==
  \A c \in TrackedCars :
  \A d1 \in {x \in SectorDistPcts : x >= 0},
     d2 \in {x \in SectorDistPcts : x >= 0},
     t1 \in SectorSessionTimes, t2 \in SectorSessionTimes :
     LET old == sector_tracker.car_states[c]
         mid == UpdateCarState(old, d1, t1)
         new == UpdateCarState(mid, d2, t2)
         k   == SectorKey(mid.last_sector)
         elapsed == IF mid.last_sector = FollowingSector(old.last_sector)
                    THEN t2 - t1 ELSE t2 - old.sector_start_time
     IN  (/\ mid.last_sector # old.last_sector
          /\ new.last_sector = FollowingSector(mid.last_sector))
           => new.sector_times[k] =
                IF 0 < elapsed /\ elapsed < MaxSectorTime
                THEN Round3(elapsed) ELSE mid.sector_times[k]

\* a tracked car can come into a sector through an ignored change and leave
\* it for the following one with a sector time recorded that is counted from
\* before it came in, and differs from its time in the sector
C37_Witness ==
  /\ call.op = "sector_update"
  /\ \E c \in TrackedCars :
     \E d1 \in {x \in SectorDistPcts : x >= 0},
        d2 \in {x \in SectorDistPcts : x >= 0},
        t1 \in SectorSessionTimes, t2 \in SectorSessionTimes :
        LET old == sector_tracker.car_states[c]
            mid == UpdateCarState(old, d1, t1)
            new == UpdateCarState(mid, d2, t2)
            k   == SectorKey(mid.last_sector)
        IN  /\ old.sector_start_time < t1 /\ t1 < t2
            /\ mid.last_sector \notin {old.last_sector,
                                       FollowingSector(old.last_sector)}
            /\ new.last_sector = FollowingSector(mid.last_sector)
            /\ new.sector_times[k] = Round3(t2 - old.sector_start_time)
            /\ new.sector_times[k] # Round3(t2 - t1)
            /\ new.sector_times[k] # mid.sector_times[k]

\* C38: a tick that emits a threat call or a reminder comes at least 1.0 s
\* after the previous tick that emitted a spotter event of any kind.
C38_NonClearCallAfterCooldown ==
  [][(/\ TelemetryTick
      /\ \E e \in SpotterCalls(emitted'.events) :
            e.variant > 0 \/ e.call \in ThreatStates
      /\ spotter.last_spotter_emit > 0)
     => now' - spotter.last_spotter_emit >= spotter_cooldown]_vars

\* a threat call was emitted 1.2 s after the previous spotter event, out of
\* another threat state: the changes of state in between were not called
C38_Witness ==
  /\ call.op = "read_telemetry"
  /\ \E e \in SpotterCalls(emitted.events) : e.call \in ThreatStates
  /\ emitted.before.spotter_state \in ThreatStates
  /\ emitted.before.last_spotter_emit > 0
  /\ now - emitted.before.last_spotter_emit = 1200

\* C39: a tick that finds a pending lap older than 10.0 s and reads
\* LapLastLapTime > 0 discards the pending lap and stores no lap from it: no
\* pending lap is left, without a lap change nothing is stored or returned,
\* and a lap the tick does store is the live recorder's lap.
C39_TimeoutBeforeResolution ==
  [][(/\ ResolverTick
      /\ tick'.age > PendingTimeout
      /\ tick'.LapLastLapTime > 0)
     => /\ NoPending(lap_storage')
        /\ ~LapChanged(tick'.Lap, prev_lap_for_capture)
             => /\ call'.ret = NoLap
                /\ lap_storage'.laps = lap_storage.laps
        /\ StoredLap
             => /\ LapChanged(tick'.Lap, prev_lap_for_capture)
                /\ call'.ret.points = lap_storage.current_lap_points
                /\ call'.ret.lapNumber = lap_storage.current_lap_number]_vars

\* a tick found a pending lap older than 10.0 s while the simulator reported a
\* valid lap time: the pending lap is gone, nothing was stored or returned,
\* and the tick went on to record a point of the running lap
C39_Witness ==
  /\ call.op = "capture_lap_telemetry"
  /\ tick.ran /\ tick.age > PendingTimeout
  /\ tick.LapLastLapTime >= MinLapTime
  /\ tick.LapLastLapTime <= MaxLapTime
  /\ call.ret = NoLap
  /\ NoPending(lap_storage)
  /\ Laps = <<>>
  /\ tick.Lap = lap_storage.current_lap_number
  /\ Len(lap_storage.current_lap_points) > 0

\* C40: the live point buffer never holds more than LAP_POINTS_BUFFER_SIZE
\* points, whatever capture ticks have run.
C40_LiveBufferWithinSize ==
  Len(lap_storage.current_lap_points) <= LAP_POINTS_BUFFER_SIZE

====
